---- MODULE Spec2Model ----
(***************************************************************************)
(* bubblesub: the subtitle document (SubtitlesApi with its SubtitleList,    *)
(* StyleList and selection), the ASS event list (AssEvent / AssEventList),  *)
(* the packing of note / time metadata into the event text, and the command *)
(* API (CommandApi: parsing a command line, scheduling and running it).     *)
(***************************************************************************)
EXTENDS Integers, Sequences, FiniteSets, TLC

\* ------------------------------------------------------------------ bounds
MaxLines == 3      \* capacity of the subtitle list in the model
MaxSelLen == 2     \* longest list handed to the selection setter
MaxIndex == 3      \* largest index handed to the selection setter
MaxLoad == 2       \* most events in a loaded document
NumLists == 2      \* AssEventList objects
NumEvents == 3     \* AssEvent objects
MaxItems == 2      \* capacity of an AssEventList in the model
MaxBatch == 2      \* most items handed to one insert
MaxTime == 10      \* largest |start|, |end| of the packed events
MaxNoteLen == 2    \* longest note of the packed events
MaxTextLen == 1    \* longest text of the packed events
MaxDocEvents == 1  \* most events of a saved document
MaxDocStyles == 2  \* most styles of a saved document
MaxSegments == 2   \* most segments of one command line
MaxAwaits == 1     \* most suspensions of one command body
MaxEdits == 1      \* most edits the command bodies make to the document
MaxModules == 2    \* most files of one command directory
MaxPts == 1        \* largest start, end and |duration| written to an event
MaxLineLen == 4    \* longest command line handed to split_invocation
MaxStyles == 3     \* capacity of the style list of the written styles
MaxSubs == 2       \* capacity of the subtitle list of the written subtitles
MaxBlocks == 3     \* most parts (text, tag) of the text of a file event
MaxDragEvents == 2 \* most events of the document before a drag
MaxDragPts == 2    \* largest position of the mouse and time of an event
MaxDrags == 2      \* most drags begun on the audio widget

\* Python's None, apart from every index, object and path of the model
None == -1

VARIABLES
    lines,             \* SubtitlesApi.lines: the Subtitle objects, by identity
    selected_indexes,  \* SubtitlesApi._selected_indexes
    styles,            \* SubtitlesApi.styles: the style names, in list order
    path,              \* SubtitlesApi._path
    _ass_source,       \* SubtitlesApi._ass_source: the file it was parsed from
    last,              \* the operation that produced this state, its arguments
                       \* and the selection stored before it
    sig,               \* the signals emitted by that operation, in order, each
                       \* with the length of the backing store at emission
    seen               \* for a load: what a slot connected to each signal of
                       \* sig reads from the document while the signal is out

apiVars == <<lines, selected_indexes, styles, path, _ass_source, last, sig, seen>>

VARIABLES
    _items,            \* ObservableList._items of every AssEventList
    event_list,        \* AssEvent.event_list of every AssEvent
    ev_last            \* the list operation that produced this state

evVars == <<_items, event_list, ev_last>>

VARIABLES
    meta_in,           \* the text, note, start and end handed to _pack_meta
    meta_packed,       \* the text _pack_meta returned
    meta_out,          \* the text and Meta _extract_meta returned
    meta_pc            \* "input", "packed" or "extracted"

metaVars == <<meta_in, meta_packed, meta_out, meta_pc>>

VARIABLES
    doc_in,            \* the Subtitles and Styles of the document that is saved
    doc_file,          \* the events and styles of the written ASS file
    doc_out,           \* the Subtitles and Styles loaded from that file
    doc_pc             \* "document", "saved" or "loaded"

docVars == <<doc_in, doc_file, doc_out, doc_pc>>

VARIABLES
    _registry,         \* CommandApi._registry: the names it maps to a class
    _plugin_menu,      \* CommandApi._plugin_menu
    cmd_dirs,          \* the command directories as the last reload_commands
                       \* found them
    cmd_doc,           \* the document and selection the commands work on: the
                       \* edits made to them, each marked with its task
    tasks,             \* the commands that the last call of run_cmdline
                       \* handed to run, in order
    ready,             \* the event loop's queue of tasks to step, first in
                       \* first out
    cmd_last           \* the operation that produced this state

cmdVars == <<_registry, _plugin_menu, cmd_dirs, cmd_doc, tasks, ready, cmd_last>>

\* what reload_commands writes
registryVars == <<_registry, _plugin_menu, cmd_dirs>>

VARIABLES
    objs,              \* the __dict__ of two AssEvent objects: 1 is made by
                       \* AssEvent(...), 2 by copy(1)
    obj_items,         \* ObservableList._items of the one AssEventList
    obj_seen,          \* what the slots of the signals of the last operation
                       \* read from the event while the signal is out
    obj_last           \* the operation that produced this state

objVars == <<objs, obj_items, obj_seen, obj_last>>

VARIABLES
    split_in,          \* the command line handed to split_invocation
    split_out,         \* what split_invocation returned or raised
    split_pc           \* "input" or "split"

splitVars == <<split_in, split_out, split_pc>>

VARIABLES
    style_list,        \* the Style objects of a StyleList, in list order
    subtitle_list,     \* the Subtitle objects of a SubtitleList, in list order
    ent_sig,           \* the signals the last operation emitted through the
                       \* two lists, each with the lists as a slot finds them
    ent_last           \* the operation that produced this state

entVars == <<style_list, subtitle_list, ent_sig, ent_last>>

VARIABLES
    rd_blocks,         \* the parts the text of the file event is made of
    rd_event,          \* the pysubs2 event of the file
    rd_sub,            \* the Subtitle made from it
    rd_ssa,            \* Subtitle.ssa_event: what put_to_ass hands to the file
    rd_pc              \* "file", "read" or "written"

readVars == <<rd_blocks, rd_event, rd_sub, rd_ssa, rd_pc>>

VARIABLES
    dr_events,         \* api.subs.events: the AssEvent objects, in list order
    dr_sel,            \* api.subs.selected_indexes
    current_stream,    \* whether api.video.current_stream is there
    _drag_mode,        \* BaseAudioWidget._drag_mode
    executors,         \* selected_events, source_events and copied_events of
                       \* the executors
    undo,              \* the number of api.undo.push() calls
    dr_begun,          \* the number of begin_drag_mode calls
    dr_last            \* the operation that produced this state

dragVars ==
    <<dr_events, dr_sel, current_stream, _drag_mode, executors, undo, dr_begun,
      dr_last>>

vars ==
    <<apiVars, evVars, metaVars, docVars, cmdVars, objVars, splitVars, entVars,
      readVars, dragVars>>

\* what an operation on one part of the state leaves alone
notApi ==
    <<evVars, metaVars, docVars, cmdVars, objVars, splitVars, entVars,
      readVars, dragVars>>
notEv ==
    <<apiVars, metaVars, docVars, cmdVars, objVars, splitVars, entVars,
      readVars, dragVars>>
notMeta ==
    <<apiVars, evVars, docVars, cmdVars, objVars, splitVars, entVars,
      readVars, dragVars>>
notDoc ==
    <<apiVars, evVars, metaVars, cmdVars, objVars, splitVars, entVars,
      readVars, dragVars>>
notCmd ==
    <<apiVars, evVars, metaVars, docVars, objVars, splitVars, entVars,
      readVars, dragVars>>
notObj ==
    <<apiVars, evVars, metaVars, docVars, cmdVars, splitVars, entVars,
      readVars, dragVars>>
notSplit ==
    <<apiVars, evVars, metaVars, docVars, cmdVars, objVars, entVars,
      readVars, dragVars>>
notEnt ==
    <<apiVars, evVars, metaVars, docVars, cmdVars, objVars, splitVars,
      readVars, dragVars>>
notRead ==
    <<apiVars, evVars, metaVars, docVars, cmdVars, objVars, splitVars,
      entVars, dragVars>>
notDrag ==
    <<apiVars, evVars, metaVars, docVars, cmdVars, objVars, splitVars,
      entVars, readVars>>

\* ------------------------------------------------------- python built-ins
RECURSIVE insort(_, _)
insort(x, s) ==
    IF s = <<>> THEN <<x>>
    ELSE IF x <= Head(s) THEN <<x>> \o s
    ELSE <<Head(s)>> \o insort(x, Tail(s))

\* sorted(iterable): ascending, duplicates kept
RECURSIVE sorted(_)
sorted(s) == IF s = <<>> THEN <<>> ELSE insort(Head(s), sorted(Tail(s)))

Range(s) == {s[k] : k \in 1..Len(s)}

\* data[:idx] + items + data[idx:]
SliceInsert(data, idx, items) ==
    SubSeq(data, 1, idx) \o items \o SubSeq(data, idx + 1, Len(data))

\* data[:idx] + data[idx + count:]
SliceRemove(data, idx, count) ==
    SubSeq(data, 1, idx) \o SubSeq(data, idx + count + 1, Len(data))

\* ------------------------------------------------------------- signals
Signal(name, idx, count, sel, changed, nlines) ==
    [name |-> name, idx |-> idx, count |-> count, sel |-> sel,
     changed |-> changed, nlines |-> nlines]

\* the SSAFile parsed from the EMPTY_ASS text
EMPTY_ASS == 0

Op(op, idx, count, arg, old_sel) ==
    [op |-> op, idx |-> idx, count |-> count, arg |-> arg, old_sel |-> old_sel]

\* ------------------------------------------------- SubtitlesApi selection
\* (variant: the comparison is made with the list as it was handed in)
selected_indexes_setter_unsorted_compare(old, new_selection, nlines) ==
    LET new == sorted(new_selection)
        changed == new_selection # old
    IN [stored |-> new,
        emitted |-> <<Signal("selection_changed", 0, 0, new, changed, nlines)>>]

\* The selected_indexes setter: the list it stores and the selection_changed
\* signal it emits; nlines is the length of lines while the signal is out.
selected_indexes_setter(old, new_selection, nlines) ==
    LET new == sorted(new_selection)
        changed == new # old
    IN [stored |-> new,
        emitted |-> <<Signal("selection_changed", 0, 0, new, changed, nlines)>>]

\* one pass of the handler's loop: [j - 1 if j > i else j for j in .. if j != i]
remove_index(new_indexes, i) ==
    LET kept == SelectSeq(new_indexes, LAMBDA j : j # i)
    IN [k \in 1..Len(kept) |-> IF kept[k] > i THEN kept[k] - 1 ELSE kept[k]]

\* (variant: the loop runs over range(idx, idx + count), not reversed)
RECURSIVE remove_loop_forward(_, _, _)
remove_loop_forward(new_indexes, idx, n) ==
    IF n = 0 THEN new_indexes
    ELSE remove_loop_forward(remove_index(new_indexes, idx), idx + 1, n - 1)

\* for i in reversed(range(idx, idx + count)), n passes still to run
RECURSIVE remove_loop(_, _, _)
remove_loop(new_indexes, idx, n) ==
    IF n = 0 THEN new_indexes
    ELSE remove_loop(remove_index(new_indexes, idx + n - 1), idx, n - 1)

\* SubtitlesApi._on_items_about_to_be_removed
_on_items_about_to_be_removed(sel, idx, count, nlines) ==
    selected_indexes_setter(sel, remove_loop(sorted(sel), idx, count), nlines)

\* the signal of lines that SubtitlesApi.__init__ connects the handler to
HandlerSignal_items_removed == "items_removed"
HandlerSignal == "items_about_to_be_removed"

\* ---------------------------------------------------------- ListModel
\* ListModel.remove(idx, count) on lines, with the connected handler run at
\* its signal: the new backing store, the new selection, the signals.
ListModelRemove(data, sel, idx, count) ==
    LET before == <<Signal("items_about_to_be_removed", idx, count, <<>>,
                           FALSE, Len(data))>>
        h1 == IF HandlerSignal = "items_about_to_be_removed"
              THEN _on_items_about_to_be_removed(sel, idx, count, Len(data))
              ELSE [stored |-> sel, emitted |-> <<>>]
        new_data == SliceRemove(data, idx, count)
        after == <<Signal("items_removed", idx, count, <<>>, FALSE,
                          Len(new_data))>>
        h2 == IF HandlerSignal = "items_removed"
              THEN _on_items_about_to_be_removed(h1.stored, idx, count,
                                                 Len(new_data))
              ELSE [stored |-> h1.stored, emitted |-> <<>>]
    IN [data |-> new_data,
        sel |-> h2.stored,
        emitted |-> before \o h1.emitted \o after \o h2.emitted]

\* ListModel.insert(idx, items): nothing of SubtitlesApi listens to it
ListModelInsert(data, idx, items) ==
    LET new_data == SliceInsert(data, idx, items)
    IN [data |-> new_data,
        emitted |-> IF items = <<>> THEN <<>>
                    ELSE <<Signal("items_about_to_be_inserted", idx,
                                  Len(items), <<>>, FALSE, Len(data)),
                           Signal("items_inserted", idx, Len(items), <<>>,
                                  FALSE, Len(new_data))>>]

\* a Subtitle object that is not in the list (a new object)
NewSubtitle(data) ==
    CHOOSE s \in 1..(Len(data) + 1) : s \notin Range(data)

\* ------------------------------------------------ AssEvent / AssEventList
Lists == 1..NumLists
Events == 1..NumEvents

EvOp(op, list, idx, count, raised) ==
    [op |-> op, list |-> list, idx |-> idx, count |-> count, raised |-> raised]

\* AssEvent.__init__ leaves event_list None; AssEventList.__init__ is empty
EvInit ==
    /\ _items = [l \in Lists |-> <<>>]
    /\ event_list = [e \in Events |-> None]
    /\ ev_last = EvOp("init", 0, 0, 0, FALSE)

\* AssEventList._on_items_insertion over self._items[idx : idx + count]:
\* the assertion stops the loop at the first item that has an owner
RECURSIVE _on_items_insertion(_, _, _)
_on_items_insertion(owner, self, batch) ==
    IF batch = <<>> THEN [owner |-> owner, raised |-> FALSE]
    ELSE IF owner[Head(batch)] # None THEN [owner |-> owner, raised |-> TRUE]
    ELSE _on_items_insertion(
             [owner EXCEPT ![Head(batch)] = self], self, Tail(batch))

\* AssEventList._on_items_removal over self._items[idx : idx + count]
_on_items_removal(owner, batch) ==
    [e \in Events |-> IF e \in Range(batch) THEN None ELSE owner[e]]

\* ObservableList.index(item): the first position of the item
ObservableList_index(data, item) ==
    IF item \in Range(data)
    THEN (CHOOSE k \in 1..Len(data) :
              data[k] = item /\ \A m \in 1..(k - 1) : data[m] # item) - 1
    ELSE None

\* ObservableList.get(idx, default)
ObservableList_get(data, idx, default) ==
    IF 0 <= idx /\ idx < Len(data) THEN data[idx + 1] ELSE default

\* AssEvent.index
index(e) ==
    IF event_list[e] # None
    THEN ObservableList_index(_items[event_list[e]], e)
    ELSE None

\* AssEvent.number
number(e) == IF index(e) = None THEN None ELSE index(e) + 1

\* AssEvent.prev
prev(e) ==
    IF index(e) = None THEN None
    ELSE ObservableList_get(_items[event_list[e]], index(e) - 1, None)

\* AssEvent.next
next(e) ==
    IF index(e) = None THEN None
    ELSE ObservableList_get(_items[event_list[e]], index(e) + 1, None)

InsertBatches == UNION {[1..n -> Events] : n \in 1..MaxBatch}

\* events.insert(idx, *items): ObservableList.insert puts the items into
\* _items and emits items_inserted, which runs _on_items_insertion
EvInsert ==
    \E l \in Lists, batch \in InsertBatches :
      \E idx \in 0..Len(_items[l]) :
        /\ Len(_items[l]) + Len(batch) <= MaxItems
        /\ LET data == SliceInsert(_items[l], idx, batch)
               h == _on_items_insertion(event_list, l,
                                        SubSeq(data, idx + 1, idx + Len(batch)))
           IN /\ _items' = [_items EXCEPT ![l] = data]
              /\ event_list' = h.owner
              /\ ev_last' = EvOp("insert", l, idx, Len(batch), h.raised)
        /\ UNCHANGED notEv

\* events.remove(idx, count): ObservableList.remove emits
\* items_about_to_be_removed, which runs _on_items_removal, then drops the
\* items from _items
EvRemove ==
    \E l \in Lists :
      \E idx \in 0..(Len(_items[l]) - 1) :
        \E count \in 1..(Len(_items[l]) - idx) :
          /\ event_list' = _on_items_removal(
                 event_list, SubSeq(_items[l], idx + 1, idx + count))
          /\ _items' = [_items EXCEPT ![l] = SliceRemove(_items[l], idx, count)]
          /\ ev_last' = EvOp("remove", l, idx, count, FALSE)
          /\ UNCHANGED notEv

EvNext == EvInsert \/ EvRemove

\* the state of SubtitlesApi does not take part
ApiIdle ==
    /\ lines = <<>>
    /\ selected_indexes = <<>>
    /\ styles = <<"Default">>
    /\ path = None
    /\ _ass_source = EMPTY_ASS
    /\ last = Op("init", 0, 0, <<>>, <<>>)
    /\ sig = <<>>
    /\ seen = <<>>

\* ------------------------------------------- text: _pack_meta / _extract_meta
\* A str is the sequence of its characters.
BS == "\\"
NL == "\n"
DigitChars == <<"0", "1", "2", "3", "4", "5", "6", "7", "8", "9">>
NOTE_OPEN == <<"{", "N", "O", "T", "E", ":">>
TIME_OPEN == <<"{", "T", "I", "M", "E", ":">>

StartsWith(s, p, pat) ==
    /\ p + Len(pat) - 1 <= Len(s)
    /\ SubSeq(s, p, p + Len(pat) - 1) = pat

\* str.replace(old, new)
RECURSIVE str_replace(_, _, _)
str_replace(s, old, new) ==
    IF s = <<>> THEN <<>>
    ELSE IF StartsWith(s, 1, old)
         THEN new \o str_replace(SubSeq(s, Len(old) + 1, Len(s)), old, new)
         ELSE <<Head(s)>> \o str_replace(Tail(s), old, new)

\* bubblesub.ass.escape_ass_tag
escape_ass_tag(text) ==
    str_replace(str_replace(str_replace(text, <<BS>>, <<BS, BS>>),
                            <<"{">>, <<BS, "[">>),
                <<"}">>, <<BS, "]">>)

\* bubblesub.ass.unescape_ass_tag
unescape_ass_tag(text) ==
    str_replace(str_replace(str_replace(text, <<BS, BS>>, <<BS>>),
                            <<BS, "[">>, <<"{">>),
                <<BS, "]">>, <<"}">>)

\* '%d' % n
RECURSIVE Digits(_)
Digits(n) ==
    IF n < 10 THEN <<DigitChars[n + 1]>>
    ELSE Digits(n \div 10) \o <<DigitChars[(n % 10) + 1]>>

FormatInt(n) == IF n < 0 THEN <<"-">> \o Digits(-n) ELSE Digits(n)

IsDigit(c) == \E d \in 1..10 : DigitChars[d] = c

DigitValue(c) == (CHOOSE d \in 1..10 : DigitChars[d] = c) - 1

\* int(s) for s matching \d+
RECURSIVE ParseDigits(_)
ParseDigits(s) ==
    IF s = <<>> THEN 0
    ELSE 10 * ParseDigits(SubSeq(s, 1, Len(s) - 1)) + DigitValue(s[Len(s)])

\* -?\d+ matched at position p: whether it matches, its value, the position
\* after it
ScanInt(s, p) ==
    LET neg == p <= Len(s) /\ s[p] = "-"
        d == IF neg THEN p + 1 ELSE p
        stop == IF \E q \in d..Len(s) : ~IsDigit(s[q])
                THEN CHOOSE q \in d..Len(s) :
                         ~IsDigit(s[q]) /\ \A m \in d..(q - 1) : IsDigit(s[m])
                ELSE Len(s) + 1
    IN [ok |-> stop > d,
        value |-> IF stop > d
                  THEN (IF neg THEN -1 ELSE 1) * ParseDigits(SubSeq(s, d, stop - 1))
                  ELSE 0,
        next |-> stop]

\* {NOTE:(?P<note>[^}]*)} matched at position p: the position of its closing }
NoteMatchEnd(s, p) ==
    IF StartsWith(s, p, NOTE_OPEN) /\ \E q \in (p + 6)..Len(s) : s[q] = "}"
    THEN CHOOSE q \in (p + 6)..Len(s) :
             s[q] = "}" /\ \A m \in (p + 6)..(q - 1) : s[m] # "}"
    ELSE 0

\* {TIME:(?P<start>-?\d+),(?P<end>-?\d+)} matched at position p
TimeMatch(s, p) ==
    LET a == ScanInt(s, p + 6)
        b == ScanInt(s, a.next + 1)
        ok == /\ StartsWith(s, p, TIME_OPEN)
              /\ a.ok
              /\ a.next <= Len(s) /\ s[a.next] = ","
              /\ b.ok
              /\ b.next <= Len(s) /\ s[b.next] = "}"
    IN [ok |-> ok, start |-> a.value, end |-> b.value, last |-> b.next]

\* re.search(r'{NOTE:...}', s): the leftmost position where the pattern
\* matches, 0 for no match
FirstNoteMatch(s) ==
    IF \E p \in 1..Len(s) : NoteMatchEnd(s, p) # 0
    THEN CHOOSE p \in 1..Len(s) :
             NoteMatchEnd(s, p) # 0 /\ \A m \in 1..(p - 1) : NoteMatchEnd(s, m) = 0
    ELSE 0

\* re.search(r'{TIME:...}', s): the leftmost position where the pattern
\* matches, 0 for no match
FirstTimeMatch(s) ==
    IF \E p \in 1..Len(s) : TimeMatch(s, p).ok
    THEN CHOOSE p \in 1..Len(s) :
             TimeMatch(s, p).ok /\ \A m \in 1..(p - 1) : ~TimeMatch(s, m).ok
    ELSE 0

\* text[:match.start()] + text[match.end():]
Cut(s, first, lastpos) == SubSeq(s, 1, first - 1) \o SubSeq(s, lastpos + 1, Len(s))

\* Meta(note, start, end); has_note / has_time false stand for None
Meta(has_note, note, has_time, start, end) ==
    [has_note |-> has_note, note |-> note,
     has_time |-> has_time, start |-> start, end |-> end]

\* the NOTE match from position np to nq is cut out and its group unescaped
ExtractNoteAt(text, np, nq) ==
    [text |-> Cut(text, np, nq), has_note |-> TRUE,
     note |-> unescape_ass_tag(SubSeq(text, np + 6, nq - 1))]

\* first half of _extract_meta: re.search for the NOTE tag found np
ExtractNote(text, np) ==
    IF np = 0 THEN [text |-> text, has_note |-> FALSE, note |-> <<>>]
    ELSE ExtractNoteAt(text, np, NoteMatchEnd(text, np))

\* the TIME match tm at position tp is cut out and its groups read as int
ExtractTimeAt(text, tp, tm) ==
    [text |-> Cut(text, tp, tm.last), has_time |-> TRUE,
     start |-> tm.start, end |-> tm.end]

\* second half of _extract_meta: re.search for the TIME tag found tp
ExtractTime(text, tp) ==
    IF tp = 0 THEN [text |-> text, has_time |-> FALSE, start |-> 0, end |-> 0]
    ELSE ExtractTimeAt(text, tp, TimeMatch(text, tp))

\* return text, meta
ExtractResult(n, t) ==
    [text |-> t.text,
     meta |-> Meta(n.has_note, n.note, t.has_time, t.start, t.end)]

\* the TIME tag is searched in the text left after the NOTE tag was cut out
ExtractAfterNote(n) ==
    ExtractResult(n, ExtractTime(n.text, FirstTimeMatch(n.text)))

\* _extract_meta(text): the text without the tags, and the Meta
_extract_meta(text) == ExtractAfterNote(ExtractNote(text, FirstNoteMatch(text)))

\* _pack_meta(text, meta)
_pack_meta(text, meta) ==
    LET text1 == IF meta.has_time
                 THEN TIME_OPEN \o FormatInt(meta.start) \o <<",">>
                      \o FormatInt(meta.end) \o <<"}">> \o text
                 ELSE text
    IN IF meta.has_note /\ meta.note # <<>>
       THEN text1 \o NOTE_OPEN
            \o escape_ass_tag(str_replace(meta.note, <<NL>>, <<BS, "N">>))
            \o <<"}">>
       ELSE text1

NoteChars == {"a", "{", "}", NL, BS}
TextChars == {"a", "}"}
Times == {-MaxTime, -1, 0, MaxTime}

StringsOver(chars, n) == UNION {[1..k -> chars] : k \in 0..n}

NoMeta == [text |-> <<>>, meta |-> Meta(FALSE, <<>>, FALSE, 0, 0)]

MetaIdle ==
    /\ meta_in = NoMeta
    /\ meta_packed = <<>>
    /\ meta_out = NoMeta
    /\ meta_pc = "idle"

\* the events whose text is packed: Subtitle.start / end are integers, text
\* and note are strings
MetaInit ==
    /\ \E text \in StringsOver(TextChars, MaxTextLen),
          note \in StringsOver(NoteChars, MaxNoteLen),
          start \in Times, end \in Times :
        meta_in = [text |-> text, meta |-> Meta(TRUE, note, TRUE, start, end)]
    /\ meta_packed = <<>>
    /\ meta_out = NoMeta
    /\ meta_pc = "input"

\* Subtitle._sync_ssa_event: ssa_event.text = _pack_meta(text, Meta(...))
Pack ==
    /\ meta_pc = "input"
    /\ meta_packed' = _pack_meta(meta_in.text, meta_in.meta)
    /\ meta_pc' = "packed"
    /\ UNCHANGED <<meta_in, meta_out, notMeta>>

\* Subtitle.from_ssa_event: text, meta = _extract_meta(ssa_event.text)
Extract ==
    /\ meta_pc = "packed"
    /\ meta_out' = _extract_meta(meta_packed)
    /\ meta_pc' = "extracted"
    /\ UNCHANGED <<meta_in, meta_packed, notMeta>>

MetaNext == Pack \/ Extract

\* ------------------------------------------------- save_ass / load_ass
\* Subtitle._sync_ssa_event: the pysubs2.SSAEvent of a Subtitle
_sync_ssa_event(sub) ==
    [start |-> sub.start,
     end |-> sub.end,
     style |-> sub.style,
     name |-> sub.actor,
     text |-> _pack_meta(sub.text, Meta(TRUE, sub.note, TRUE, sub.start, sub.end)),
     effect |-> sub.effect,
     layer |-> sub.layer,
     marginl |-> sub.margins[1],
     marginv |-> sub.margins[2],
     marginr |-> sub.margins[3],
     type |-> IF sub.is_comment THEN "Comment" ELSE "Dialogue"]

\* (variant: start and end are always those of the file event)
SubtitleFrom_container_times(ssa_event, r) ==
    [start |-> ssa_event.start,
     end |-> ssa_event.end,
     style |-> ssa_event.style,
     actor |-> ssa_event.name,
     text |-> r.text,
     note |-> IF r.meta.has_note THEN r.meta.note ELSE <<>>,
     effect |-> ssa_event.effect,
     layer |-> ssa_event.layer,
     margins |-> <<ssa_event.marginl, ssa_event.marginv, ssa_event.marginr>>,
     is_comment |-> ssa_event.type = "Comment"]

\* Subtitle.from_ssa_event, r being what _extract_meta returned
SubtitleFrom(ssa_event, r) ==
    [start |-> IF r.meta.has_time THEN r.meta.start ELSE ssa_event.start,
     end |-> IF r.meta.has_time THEN r.meta.end ELSE ssa_event.end,
     style |-> ssa_event.style,
     actor |-> ssa_event.name,
     text |-> r.text,
     note |-> IF r.meta.has_note THEN r.meta.note ELSE <<>>,
     effect |-> ssa_event.effect,
     layer |-> ssa_event.layer,
     margins |-> <<ssa_event.marginl, ssa_event.marginv, ssa_event.marginr>>,
     is_comment |-> ssa_event.type = "Comment"]

\* Subtitle.from_ssa_event
from_ssa_event(ssa_event) ==
    SubtitleFrom(ssa_event, _extract_meta(ssa_event.text))

\* Style._sync_ssa_style: the pysubs2.SSAStyle of a Style
_sync_ssa_style(style) ==
    [fontsize |-> style.font_size,
     bold |-> style.bold,
     marginl |-> style.margin_left,
     marginr |-> style.margin_right,
     marginv |-> style.margin_vertical]

\* Style.from_ssa_style
from_ssa_style(name, ssa_style) ==
    [name |-> name,
     font_size |-> ssa_style.fontsize,
     bold |-> ssa_style.bold,
     margin_left |-> ssa_style.marginl,
     margin_right |-> ssa_style.marginr,
     margin_vertical |-> ssa_style.marginv]

\* ass_source.styles[key] = value on the ordered dict, kept as a sequence of
\* key / value pairs
DictSet(d, key, value) ==
    IF \E k \in 1..Len(d) : d[k].key = key
    THEN [k \in 1..Len(d) |-> IF d[k].key = key
                              THEN [key |-> key, value |-> value] ELSE d[k]]
    ELSE Append(d, [key |-> key, value |-> value])

\* StyleList.put_to_ass: styles.clear(), then one assignment per style
RECURSIVE styles_put_to_ass(_, _)
styles_put_to_ass(d, st) ==
    IF st = <<>> THEN d
    ELSE styles_put_to_ass(
             DictSet(d, Head(st).name, _sync_ssa_style(Head(st))), Tail(st))

\* StyleList.load_from_ass: one Style per item of ass_source.styles
styles_load_from_ass(d) ==
    [k \in 1..Len(d) |-> from_ssa_style(d[k].key, d[k].value)]

\* SubtitleList.put_to_ass
lines_put_to_ass(subs) == [k \in 1..Len(subs) |-> _sync_ssa_event(subs[k])]

\* SubtitleList.load_from_ass: one Subtitle per event of ass_source
lines_load_from_ass(events) ==
    [k \in 1..Len(events) |-> from_ssa_event(events[k])]

\* the Start / End fields of an ASS file hold H:MM:SS.cc: whole centiseconds,
\* never negative
FileTime(ms) == ((IF ms < 0 THEN 0 ELSE ms) \div 10) * 10

\* ass_source.save(path) followed by pysubs2.load(path): what the events read
\* back from the file hold
ThroughFile(ssa_event) ==
    [ssa_event EXCEPT !.start = FileTime(ssa_event.start),
                      !.end = FileTime(ssa_event.end)]

DocTimes == {-1, 15}

DocSubtitles ==
    {[start |-> a, end |-> b, style |-> "Default", actor |-> "", text |-> t,
      note |-> n, effect |-> "", layer |-> 0, margins |-> <<1, 2, 3>>,
      is_comment |-> c] :
        a \in DocTimes, b \in DocTimes, t \in StringsOver({"a"}, 1),
        n \in StringsOver({"a", NL}, 1), c \in BOOLEAN}

DocStyles ==
    {[name |-> n, font_size |-> 20, bold |-> b, margin_left |-> 1,
      margin_right |-> 2, margin_vertical |-> 3] :
        n \in {"Default", "Alt"}, b \in BOOLEAN}

NoDoc == [events |-> <<>>, styles |-> <<>>]

DocIdle ==
    /\ doc_in = NoDoc
    /\ doc_file = NoDoc
    /\ doc_out = NoDoc
    /\ doc_pc = "idle"

\* the documents that are saved: the lists of SubtitlesApi.lines / styles
DocInit ==
    /\ \E ev \in UNION {[1..n -> DocSubtitles] : n \in 0..MaxDocEvents},
          st \in UNION {[1..m -> DocStyles] : m \in 1..MaxDocStyles} :
        doc_in = [events |-> ev, styles |-> st]
    /\ doc_file = NoDoc
    /\ doc_out = NoDoc
    /\ doc_pc = "document"

\* SubtitlesApi.save_ass
SaveAss ==
    /\ doc_pc = "document"
    /\ doc_file' =
         [events |-> [k \in 1..Len(doc_in.events) |->
                         ThroughFile(lines_put_to_ass(doc_in.events)[k])],
          styles |-> styles_put_to_ass(<<>>, doc_in.styles)]
    /\ doc_pc' = "saved"
    /\ UNCHANGED <<doc_in, doc_out, notDoc>>

\* SubtitlesApi.load_ass of the saved file
LoadAss ==
    /\ doc_pc = "saved"
    /\ doc_out' = [events |-> lines_load_from_ass(doc_file.events),
                   styles |-> styles_load_from_ass(doc_file.styles)]
    /\ doc_pc' = "loaded"
    /\ UNCHANGED <<doc_in, doc_file, notDoc>>

DocNext == SaveAss \/ LoadAss

\* -------------------------------------------------------------- commands
\* The command classes of the model. None overrides decorate_parser; B is
\* silent; A has an alias; C uses the first name of A.
Classes == {"A", "B", "C"}

\* cls.names
names(cls) ==
    IF cls = "A" THEN <<"cmd-a", "a">>
    ELSE IF cls = "B" THEN <<"cmd-b">>
    ELSE IF cls = "C" THEN <<"cmd-a">>
    ELSE <<>>

\* an entry of a COMMANDS list that is no command class: it has no names,
\* and reading cls.names raises AttributeError
NotACommand == "N"
names_raises(cls) == cls = NotACommand

\* cls.silent
silent(cls) == cls = "B"

\* The python files a command directory may hold. Executing x.py raises;
\* a.py has no MENU; y.py lists B, an entry that is no command class, and C.
Modules == {"a.py", "b.py", "c.py", "x.py", "y.py"}

\* spec.loader.exec_module(mod)
exec_module(mod) == IF mod = "x.py" THEN "Exception" ELSE "none"

\* mod.COMMANDS
COMMANDS(mod) ==
    IF mod = "a.py" THEN <<"A">>
    ELSE IF mod = "b.py" THEN <<"B">>
    ELSE IF mod = "c.py" THEN <<"C">>
    ELSE IF mod = "y.py" THEN <<"B", NotACommand, "C">>
    ELSE <<>>

\* mod.MENU
MENU(mod) ==
    IF mod = "b.py" THEN [raised |-> "none", value |-> <<"menu-b">>]
    ELSE IF mod = "c.py" THEN [raised |-> "none", value |-> <<"menu-c">>]
    ELSE IF mod = "y.py" THEN [raised |-> "none", value |-> <<"menu-y">>]
    ELSE [raised |-> "AttributeError", value |-> <<>>]

\* the directories reload_commands scans: the files of bubblesub/cmd,
\* whether opt.root_dir is set, and the files of its scripts directory, each
\* in the order glob yields them
CommandDirs(cmd_dir, root_dir, scripts) ==
    [cmd_dir |-> cmd_dir, root_dir |-> root_dir, scripts |-> scripts]

\* the names typed in command lines
CommandNames == {"cmd-a", "cmd-b"}

\* (variant: a name that is registered keeps its class)
RegistrySetDefault(registry, name, cls) ==
    [n \in DOMAIN registry \cup {name} |->
        IF n \in DOMAIN registry THEN registry[n] ELSE cls]

\* self._registry[name] = cls
RegistrySet(registry, name, cls) ==
    [n \in DOMAIN registry \cup {name} |->
        IF n = name THEN cls ELSE registry[n]]

\* for name in cls.names: self._registry[name] = cls
RECURSIVE register_names(_, _, _)
register_names(registry, cls, ns) ==
    IF ns = <<>> THEN registry
    ELSE register_names(RegistrySet(registry, Head(ns), cls), cls, Tail(ns))

\* for cls in mod.COMMANDS
RECURSIVE register_commands(_, _)
register_commands(registry, commands) ==
    IF commands = <<>> THEN registry
    ELSE register_commands(
             register_names(registry, Head(commands), names(Head(commands))),
             Tail(commands))

\* the classes of mod.COMMANDS that the loop registers: it stops at the
\* first whose cls.names raises
RECURSIVE reached(_)
reached(commands) ==
    IF commands = <<>> \/ names_raises(Head(commands)) THEN <<>>
    ELSE <<Head(commands)>> \o reached(Tail(commands))

\* the loop over mod.COMMANDS was left by an exception
loop_raised(mod) == reached(COMMANDS(mod)) # COMMANDS(mod)

\* CommandApi._load_commands over the files found in a directory: a file
\* whose execution raises is logged and skipped; the classes of its COMMANDS
\* are registered one by one, and when that raises the file is logged and
\* left with what was registered; otherwise the MENU of a file that has one
\* is added to the plugin menu
RECURSIVE _load_commands(_, _)
_load_commands(api, specs) ==
    IF specs = <<>> THEN api
    ELSE LET mod == Head(specs)
             menu == MENU(mod)
         IN IF exec_module(mod) # "none"
            THEN _load_commands(api, Tail(specs))
            ELSE _load_commands(
                     [api EXCEPT
                        !.registry =
                            register_commands(@, reached(COMMANDS(mod))),
                        !.plugin_menu =
                            IF loop_raised(mod) \/ menu.raised = "AttributeError"
                            THEN @ ELSE @ \o menu.value],
                     Tail(specs))

\* (variant: the registry is not cleared)
_unload_commands_menu_only(api) == [api EXCEPT !.plugin_menu = <<>>]

\* CommandApi._unload_commands
_unload_commands(api) ==
    [api EXCEPT !.registry = <<>>, !.plugin_menu = <<>>]

\* the registry and the menu of a CommandApi, and the signals a call on it
\* has emitted so far
CommandApi(registry, plugin_menu) ==
    [registry |-> registry, plugin_menu |-> plugin_menu, emitted |-> <<>>]

\* CommandApi.reload_commands: both are cleared and filled from
\* bubblesub/cmd and then, when opt.root_dir is set, its scripts directory;
\* commands_loaded is emitted last
reload_commands(api, dirs) ==
    LET core == _load_commands(_unload_commands(api), dirs.cmd_dir)
        loaded == IF dirs.root_dir THEN _load_commands(core, dirs.scripts)
                  ELSE core
    IN [loaded EXCEPT !.emitted = Append(@, "commands_loaded")]

\* CommandApi.get
get(registry, name) ==
    IF name \in DOMAIN registry THEN registry[name] ELSE "None"

\* an invocation is the command name followed by its arguments
ArgLists == {<<>>, <<"--bad">>}
Invocations == {<<n>> \o a : n \in CommandNames, a \in ArgLists}
Cmdlines == UNION {[1..n -> Invocations] : n \in 1..MaxSegments}

CmdOp(op, cmdline, raised, message, task, enabled) ==
    [op |-> op, cmdline |-> cmdline, raised |-> raised, message |-> message,
     task |-> task, enabled |-> enabled]

\* (variant: argparse's own error, which prints the usage and exits)
ArgumentParser_error(prog, message) ==
    [raised |-> "SystemExit", message |-> <<>>]

\* CommandArgumentParser.error: the message is the error line followed by
\* the help text, which begins with the usage line
CommandArgumentParser_error(prog, message) ==
    [raised |-> "BadInvocation",
     message |-> <<<<prog, "error", message>>, <<"usage", prog>>>>]

\* parser.parse_args(cmd_args) of a parser made with add_help=False that
\* decorate_parser added nothing to: every argument is unrecognized
parse_args(prog, cmd_args) ==
    IF cmd_args = <<>>
    THEN [raised |-> "none", message |-> <<>>]
    ELSE CommandArgumentParser_error(prog, "unrecognized arguments")

\* cls(self._api, args, invocation), and the task run makes of it
BaseCommand(cls, name) ==
    [cls |-> cls, name |-> name, ran |-> "none", pc |-> "created", is_enabled |-> "unread",
     body_invoked |-> FALSE, awaits |-> 0, ended |-> "none",
     handled |-> "none", ret |-> FALSE, raised |-> "none", log |-> <<>>]

\* CommandApi.parse_cmdline: ret is the list built when the loop ends or
\* the exception leaves
RECURSIVE parse_cmdline_from(_, _, _)
parse_cmdline_from(registry, cmdline, ret) ==
    IF cmdline = <<>>
    THEN [raised |-> "none", message |-> <<>>, ret |-> ret]
    ELSE LET invocation == Head(cmdline)
             cmd_name == Head(invocation)
             cmd_args == Tail(invocation)
             cls == get(registry, cmd_name)
         IN IF cls = "None"
            THEN [raised |-> "CommandNotFound",
                  message |-> <<<<"no command named", cmd_name>>>>,
                  ret |-> ret]
            ELSE LET args == parse_args(names(cls)[1], cmd_args)
                 IN IF args.raised # "none"
                    THEN [raised |-> args.raised, message |-> args.message,
                          ret |-> ret]
                    ELSE parse_cmdline_from(
                             registry, Tail(cmdline),
                             Append(ret, BaseCommand(cls, cmd_name)))

parse_cmdline(registry, cmdline) == parse_cmdline_from(registry, cmdline, <<>>)

\* (variant: each segment is run as soon as it is parsed)
run_cmdline_segment_by_segment(registry, cmdline) ==
    LET p == parse_cmdline(registry, cmdline)
    IN [raised |-> p.raised, message |-> p.message, run |-> p.ret]

\* CommandApi.run_cmdline: the commands it hands to run, in order; none when
\* parse_cmdline raises, as the loop over its result is then never entered
run_cmdline(registry, cmdline) ==
    LET p == parse_cmdline(registry, cmdline)
    IN [raised |-> p.raised, message |-> p.message,
        run |-> IF p.raised # "none" THEN <<>> ELSE p.ret]

\* CommandApi.run for each of cmds: asyncio.ensure_future makes a task of
\* run_async(cmd) and queues its first step; nothing of it runs yet
run(cmds) == [k \in 1..Len(cmds) |-> [cmds[k] EXCEPT !.pc = "scheduled"]]

\* no task is queued or suspended
Idle == \A t \in 1..Len(tasks) : tasks[t].pc = "done"

\* str(ex) of the exceptions: CommandCanceled and CommandUnavailable set
\* their own text
str(ex) ==
    IF ex = "CommandCanceled" THEN "canceled"
    ELSE IF ex = "CommandUnavailable" THEN "command not available right now"
    ELSE ex

\* self._api.log of run_async: nothing is logged for a silent command
Log(cmd, entries) == IF silent(cmd.cls) THEN <<>> ELSE entries

\* (variant: the echo is made once the command is known to be enabled)
run_async_enter_echo_after_check(cmd, is_enabled) ==
    [log |-> IF is_enabled THEN Log(cmd, <<<<"command_echo", cmd.name>>>>)
             ELSE <<>>,
     ended |-> IF ~is_enabled THEN "CommandUnavailable" ELSE "none"]

\* (variant: is_enabled is not read)
run_async_enter_unchecked(cmd, is_enabled) ==
    [log |-> Log(cmd, <<<<"command_echo", cmd.name>>>>), ended |-> "none"]

\* run_async up to the call of cmd.run(): the echo, then the try block
\* raises CommandUnavailable when is_enabled is false
run_async_enter(cmd, is_enabled) ==
    [log |-> Log(cmd, <<<<"command_echo", cmd.name>>>>),
     ended |-> IF ~is_enabled THEN "CommandUnavailable" ELSE "none"]

\* (variant: without the except Exception clause)
run_async_leave_uncaught(cmd, ended) ==
    IF ended \in {"CommandCanceled", "CommandUnavailable"}
    THEN [handled |-> "except (CommandCanceled, CommandUnavailable)",
          log |-> Log(cmd, <<<<"warn", str(ended)>>>>),
          raised |-> "none", ret |-> FALSE]
    ELSE IF ended = "Exception"
    THEN [handled |-> "none", log |-> <<>>, raised |-> ended, ret |-> FALSE]
    ELSE [handled |-> "return",
          log |-> Log(cmd, <<<<"debug", cmd.name, "took">>>>),
          raised |-> "none", ret |-> TRUE]

\* run_async from the end of the try block: ended is "return" or the class
\* of the exception that left the block
run_async_leave(cmd, ended) ==
    IF ended \in {"CommandCanceled", "CommandUnavailable"}
    THEN [handled |-> "except (CommandCanceled, CommandUnavailable)",
          log |-> Log(cmd, <<<<"warn", str(ended)>>>>),
          raised |-> "none", ret |-> FALSE]
    ELSE IF ended = "Exception"
    THEN [handled |-> "except Exception",
          log |-> Log(cmd, <<<<"error", "problem running", cmd.name>>,
                           <<"error", str(ended)>>>>),
          raised |-> "none", ret |-> FALSE]
    ELSE [handled |-> "return",
          log |-> Log(cmd, <<<<"debug", cmd.name, "took">>>>),
          raised |-> "none", ret |-> TRUE]

\* the directories when the program starts, and as the commands that
\* reload find them: as they were, or with the script replaced by one that
\* uses the name of a command of bubblesub/cmd
Filesystem(edit) ==
    IF edit = "reload_commands_new_script"
    THEN CommandDirs(<<"a.py">>, TRUE, <<"c.py">>)
    ELSE CommandDirs(<<"a.py">>, TRUE, <<"b.py">>)

\* CommandApi.__init__: the registry and the menu are empty, then filled by
\* reload_commands
CmdInit ==
    /\ cmd_dirs = Filesystem("reload_commands")
    /\ _registry =
          reload_commands(CommandApi(<<>>, <<>>),
                          Filesystem("reload_commands")).registry
    /\ _plugin_menu =
          reload_commands(CommandApi(<<>>, <<>>),
                          Filesystem("reload_commands")).plugin_menu
    /\ cmd_doc = <<>>
    /\ tasks = <<>>
    /\ ready = <<>>
    /\ cmd_last = CmdOp("init", <<>>, "none", <<>>, 0, TRUE)

\* what one run of a command body does between two suspensions: an edit of
\* the document, a reload of the commands or nothing, and then how it ends
Reloads == {"reload_commands", "reload_commands_new_script"}
Edits == {"none", "document"} \cup Reloads
Ends == {"await", "return", "CommandCanceled", "CommandUnavailable",
         "Exception"}

BodySteps(cmd) ==
    {[edit |-> e, end |-> x] :
        e \in {d \in Edits : d = "document" => Len(cmd_doc) < MaxEdits},
        x \in {y \in Ends : y = "await" => cmd.awaits < MaxAwaits}}

Edited(doc, edit, t) == IF edit = "document" THEN Append(doc, t) ELSE doc

\* the registry and the menu after a body step: api.cmd.reload_commands()
\* where the step reloads
Reloaded(api, edit) ==
    IF edit \in Reloads THEN reload_commands(api, Filesystem(edit)) ELSE api

\* a body step writes the three of them
ReloadedVars(edit) ==
    LET api == Reloaded(CommandApi(_registry, _plugin_menu), edit)
    IN /\ _registry' = api.registry
       /\ _plugin_menu' = api.plugin_menu
       /\ cmd_dirs' = IF edit \in Reloads THEN Filesystem(edit) ELSE cmd_dirs

\* (variant: the class is looked up by name when the body is called)
implementation_by_name(cmd, registry) == get(registry, cmd.name)

\* cmd.run of run_async: the method of the object parse_cmdline made
implementation(cmd, registry) == cmd.cls

\* the task after cmd.run() ran up to body.end; awaits counts the suspensions
\* of a body that is still running
AfterBody(cmd, log, body) ==
    IF body.end = "await"
    THEN [cmd EXCEPT !.pc = "suspended", !.awaits = @ + 1, !.log = log]
    ELSE LET l == run_async_leave(cmd, body.end)
         IN [cmd EXCEPT !.pc = "done", !.awaits = 0, !.ended = body.end,
                        !.handled = l.handled, !.ret = l.ret,
                        !.raised = l.raised, !.log = log \o l.log]

\* api.cmd.run_cmdline(cmdline), called when the commands of the call before
\* it have finished; their tasks are gone by then
RunCmdline ==
    \E cmdline \in Cmdlines :
        LET r == run_cmdline(_registry, cmdline)
        IN /\ Idle
           /\ tasks' = run(r.run)
           /\ ready' = [k \in 1..Len(r.run) |-> k]
           /\ cmd_last' = CmdOp("run_cmdline", cmdline, r.raised, r.message,
                                0, TRUE)
           /\ UNCHANGED <<registryVars, cmd_doc, notCmd>>

\* the loop steps the first task of its queue, a task that has not run yet:
\* run_async from its start to its end or to the first await of the body
TaskStart ==
    /\ ready # <<>>
    /\ tasks[Head(ready)].pc = "scheduled"
    /\ \E is_enabled \in BOOLEAN :
        LET t == Head(ready)
            cmd == [tasks[t] EXCEPT
                      !.is_enabled = IF is_enabled THEN "true" ELSE "false"]
            e == run_async_enter(cmd, is_enabled)
        IN /\ ready' = Tail(ready)
           /\ cmd_last' = CmdOp("start", <<>>, "none", <<>>, t, is_enabled)
           /\ IF e.ended # "none"
              THEN /\ tasks' = [tasks EXCEPT ![t] =
                                 AfterBody(cmd, e.log,
                                           [edit |-> "none", end |-> e.ended])]
                   /\ UNCHANGED <<cmd_doc, registryVars>>
              ELSE \E body \in BodySteps(cmd) :
                   /\ tasks' = [tasks EXCEPT ![t] =
                                 AfterBody(
                                     [cmd EXCEPT
                                        !.body_invoked = TRUE,
                                        !.ran = implementation(cmd, _registry)],
                                     e.log, body)]
                   /\ cmd_doc' = Edited(cmd_doc, body.edit, t)
                   /\ ReloadedVars(body.edit)
           /\ UNCHANGED notCmd

\* what a suspended body awaits is there: its task is queued again
Wake ==
    \E t \in 1..Len(tasks) :
        /\ tasks[t].pc = "suspended"
        /\ tasks' = [tasks EXCEPT ![t].pc = "woken"]
        /\ ready' = Append(ready, t)
        /\ cmd_last' = CmdOp("wake", <<>>, "none", <<>>, 0, TRUE)
        /\ UNCHANGED <<registryVars, cmd_doc, notCmd>>

\* the loop steps the first task of its queue, a task whose body awaited
TaskResume ==
    /\ ready # <<>>
    /\ tasks[Head(ready)].pc = "woken"
    /\ \E body \in BodySteps(tasks[Head(ready)]) :
        LET t == Head(ready)
            cmd == tasks[t]
        IN /\ ready' = Tail(ready)
           /\ cmd_last' = CmdOp("resume", <<>>, "none", <<>>, 0, TRUE)
           /\ tasks' = [tasks EXCEPT ![t] = AfterBody(cmd, cmd.log, body)]
           /\ cmd_doc' = Edited(cmd_doc, body.edit, t)
           /\ ReloadedVars(body.edit)
           /\ UNCHANGED notCmd

\* main_window._run_cmd, the slot of a menu action or hotkey: the command
\* runs at once, and only if it reports itself enabled; 0 marks its edits
_run_cmd ==
    \E enabled \in BOOLEAN :
        \E edit \in {d \in {"none", "document"} :
                        d = "document" => Len(cmd_doc) < MaxEdits} :
            /\ cmd_doc' = IF enabled THEN Edited(cmd_doc, edit, 0) ELSE cmd_doc
            /\ cmd_last' = CmdOp("_run_cmd", <<>>, "none", <<>>, 0, enabled)
            /\ UNCHANGED <<registryVars, tasks, ready, notCmd>>

CmdNext == RunCmdline \/ TaskStart \/ Wake \/ TaskResume \/ _run_cmd

\* the files a command directory may hold, in the order glob yields them
Directories ==
    {d \in UNION {[1..n -> Modules] : n \in 0..MaxModules} :
        \A i, j \in 1..Len(d) : d[i] = d[j] => i = j}

\* api.cmd.reload_commands(), whatever the directories hold by then
ReloadCommands ==
    \E cmd_dir \in Directories, root_dir \in BOOLEAN :
      \E scripts \in IF root_dir THEN Directories ELSE {<<>>} :
        LET dirs == CommandDirs(cmd_dir, root_dir, scripts)
            api == reload_commands(CommandApi(_registry, _plugin_menu), dirs)
        IN /\ _registry' = api.registry
           /\ _plugin_menu' = api.plugin_menu
           /\ cmd_dirs' = dirs
           /\ cmd_last' = CmdOp("reload_commands", <<>>, "none", <<>>, 0, TRUE)
           /\ UNCHANGED <<cmd_doc, tasks, ready, notCmd>>

ReloadNext == ReloadCommands

\* ------------------------------------------------------ split_invocation
\* the characters of the command lines: a letter, the separator, a blank, a
\* quote and the comment character of shlex
LineChars == {"a", ";", " ", "'", "#"}

\* shlex.quotes, shlex.whitespace, shlex.commenters and punctuation_chars,
\* as far as the characters of the model go
quotes == {"'"}
whitespace == {" "}
commenters == {"#"}
punctuation_chars == {";"}

\* splitter.wordchars as split_invocation sets it
wordchars(invocation) ==
    {char \in Range(invocation) :
        char \notin quotes \cup whitespace \cup {";"}}

\* the end of the input as read(1) reports it
EOF == ""

ShlexToken(token, instream, pushback, state, raised) ==
    [token |-> token, instream |-> instream, pushback |-> pushback,
     state |-> state, raised |-> raised]

\* shlex.read_token of a shlex that is not in POSIX mode: state is " "
\* between tokens, "a" in a word, "c" in a run of punctuation, the quote in
\* a quoted token and "None" past the end; the quotes stay in the token, a
\* quote inside a word is a character of the word, a comment runs to the
\* end of the line
RECURSIVE read_token(_, _, _, _, _)
read_token(instream, pushback, state, token, wc) ==
    LET popped == pushback # <<>>
        nextchar == IF popped THEN pushback[Len(pushback)]
                    ELSE IF instream # <<>> THEN Head(instream)
                    ELSE EOF
        ins == IF popped \/ instream = <<>> THEN instream ELSE Tail(instream)
        pb == IF popped THEN SubSeq(pushback, 1, Len(pushback) - 1) ELSE <<>>
    IN IF state = "None"
       THEN ShlexToken(<<>>, ins, pb, "None", "none")
       ELSE IF state = " "
       THEN IF nextchar = EOF
            THEN ShlexToken(token, ins, pb, "None", "none")
            ELSE IF nextchar \in whitespace
            THEN IF token # <<>>
                 THEN ShlexToken(token, ins, pb, " ", "none")
                 ELSE read_token(ins, pb, " ", token, wc)
            ELSE IF nextchar \in commenters
            THEN read_token(<<>>, pb, " ", token, wc)
            ELSE IF nextchar \in wc
            THEN read_token(ins, pb, "a", <<nextchar>>, wc)
            ELSE IF nextchar \in punctuation_chars
            THEN read_token(ins, pb, "c", <<nextchar>>, wc)
            ELSE IF nextchar \in quotes
            THEN read_token(ins, pb, nextchar, <<nextchar>>, wc)
            ELSE ShlexToken(<<nextchar>>, ins, pb, " ", "none")
       ELSE IF state \in quotes
       THEN IF nextchar = EOF
            THEN ShlexToken(token, ins, pb, state, "ValueError")
            ELSE IF nextchar = state
            THEN ShlexToken(Append(token, nextchar), ins, pb, " ", "none")
            ELSE read_token(ins, pb, state, Append(token, nextchar), wc)
       ELSE IF nextchar = EOF
            THEN ShlexToken(token, ins, pb, "None", "none")
            ELSE IF nextchar \in whitespace
            THEN IF token # <<>>
                 THEN ShlexToken(token, ins, pb, " ", "none")
                 ELSE read_token(ins, pb, " ", token, wc)
            ELSE IF nextchar \in commenters
            THEN read_token(<<>>, pb, state, token, wc)
            ELSE IF state = "c"
            THEN IF nextchar \in punctuation_chars
                 THEN read_token(ins, pb, "c", Append(token, nextchar), wc)
                 ELSE ShlexToken(token, ins, Append(pb, nextchar), " ", "none")
            ELSE IF nextchar \in wc \/ nextchar \in quotes
            THEN read_token(ins, pb, "a", Append(token, nextchar), wc)
            ELSE ShlexToken(token, ins, Append(pb, nextchar), " ", "none")

\* list(splitter): the tokens up to the empty one that ends the iteration
RECURSIVE shlex_tokens(_, _, _, _, _)
shlex_tokens(instream, pushback, state, wc, tokens) ==
    LET r == read_token(instream, pushback, state, <<>>, wc)
    IN IF r.raised # "none" THEN [raised |-> r.raised, tokens |-> tokens]
       ELSE IF r.token = <<>> THEN [raised |-> "none", tokens |-> tokens]
       ELSE shlex_tokens(r.instream, r.pushback, r.state, wc,
                         Append(tokens, r.token))

\* lambda token: token == ";"
IsSeparator(token) == token = <<";">>

\* the groups of itertools.groupby whose key is false: the runs of tokens
\* between the tokens that are a separator
RECURSIVE groupby(_, _, _)
groupby(tokens, group, invocations) ==
    IF tokens = <<>>
    THEN IF group = <<>> THEN invocations ELSE Append(invocations, group)
    ELSE IF IsSeparator(Head(tokens))
    THEN groupby(Tail(tokens), <<>>,
                 IF group = <<>> THEN invocations
                 ELSE Append(invocations, group))
    ELSE groupby(Tail(tokens), Append(group, Head(tokens)), invocations)

\* split_invocation
split_invocation(invocation) ==
    LET t == shlex_tokens(invocation, <<>>, " ", wordchars(invocation), <<>>)
    IN IF t.raised # "none"
       THEN [raised |-> t.raised, invocations |-> <<>>]
       ELSE [raised |-> "none", invocations |-> groupby(t.tokens, <<>>, <<>>)]

Lines == UNION {[1..n -> LineChars] : n \in 0..MaxLineLen}

NotSplit == [raised |-> "none", invocations |-> <<>>]

SplitIdle ==
    /\ split_in = <<>>
    /\ split_out = NotSplit
    /\ split_pc = "idle"

SplitInit ==
    /\ split_in \in Lines
    /\ split_out = NotSplit
    /\ split_pc = "input"

\* split_invocation(invocation)
SplitInvocation ==
    /\ split_pc = "input"
    /\ split_out' = split_invocation(split_in)
    /\ split_pc' = "split"
    /\ UNCHANGED <<split_in, notSplit>>

SplitNext == SplitInvocation

\* ------------------------------------------------- AssEvent as an object
Objects == {1, 2}
TheList == 1
Pts == 0..MaxPts
Durations == (0 - MaxPts)..MaxPts
Texts == {<<>>, <<"a", NL>>}

ObjOp(op, obj, value) == [op |-> op, obj |-> obj, value |-> value]

\* an object that does not exist yet
NoEvent ==
    [alive |-> FALSE, event_list |-> None, start |-> 0, end |-> 0,
     _text |-> <<>>, _hash |-> 0]

\* AssEvent.__init__: _text is the argument as it is, _hash is 0
AssEvent(start, end, text) ==
    [alive |-> TRUE, event_list |-> None, start |-> start, end |-> end,
     _text |-> text, _hash |-> 0]

\* hash((id(self.event_list), self.start, self.end, ..., self.text, ...)),
\* a number for each tuple of the model and never 0
hash(owner, start, end, text) ==
    1 + (owner + 1)
      + 3 * ((start + 2 * MaxPts)
             + (4 * MaxPts + 1) * ((end + 2 * MaxPts)
                                   + (4 * MaxPts + 1)
                                     * (IF text = <<>> THEN 0
                                        ELSE IF NL \in Range(text) THEN 1
                                        ELSE 2)))

\* the hash of the owner and the fields an event has now
CurrentHash(o) == hash(o.event_list, o.start, o.end, o._text)

\* AssEvent.index
ObjIndex(o, e, items) ==
    IF o.event_list # None THEN ObservableList_index(items, e) ELSE None

\* what a slot reads from the event while a signal is out
ObjSeen(signal, idx, e, o) ==
    [signal |-> signal, index |-> idx, item |-> e, _hash |-> o._hash,
     current |-> CurrentHash(o)]

\* AssEvent._after_change: item_modified is emitted through the owner, then
\* _hash is computed
_after_change(o, e, items) ==
    [emitted |-> IF ObjIndex(o, e, items) # None /\ o.event_list # None
                 THEN <<ObjSeen("item_modified", ObjIndex(o, e, items), e, o)>>
                 ELSE <<>>,
     o |-> [o EXCEPT !._hash = CurrentHash(o)]]

\* the write of one attribute: text goes through its setter
Written(o, attribute, value) ==
    IF attribute = "start" THEN [o EXCEPT !.start = value]
    ELSE IF attribute = "end" THEN [o EXCEPT !.end = value]
    ELSE IF attribute = "event_list" THEN [o EXCEPT !.event_list = value]
    ELSE [o EXCEPT !._text = str_replace(value, <<NL>>, <<BS, "N">>)]

\* ObservableObject.__setattr__: the write, then the post-change hook
ObservableObject_setattr(o, e, items, attribute, value) ==
    _after_change(Written(o, attribute, value), e, items)

\* AssEvent.duration
duration(o) == o.end - o.start

\* (variant: the start is moved and the end kept)
duration_setter_moving_start(o, e, items, value) ==
    ObservableObject_setattr(o, e, items, "start", o.end - value)

\* the setter of AssEvent.duration: self.end = self.start + value
duration_setter(o, e, items, value) ==
    ObservableObject_setattr(o, e, items, "end", o.start + value)

\* event.duration = value: the setter runs as the write of the attribute
\* duration, whose post-change hook follows that of end
ObservableObject_setattr_duration(o, e, items, value) ==
    LET inner == duration_setter(o, e, items, value)
        outer == _after_change(inner.o, e, items)
    IN [emitted |-> inner.emitted \o outer.emitted, o |-> outer.o]

\* (variant: the owner is copied with the other attributes)
copy_attached(o) == o

\* AssEvent.__copy__: every attribute value is put into the __dict__ of a
\* new event, then event_list is put there as None
copy(o) == [o EXCEPT !.event_list = None]

ObjInit ==
    /\ objs = [e \in Objects |-> NoEvent]
    /\ obj_items = <<>>
    /\ obj_seen = <<>>
    /\ obj_last = ObjOp("init", 0, 0)

\* AssEvent(start, end, text=text)
ObjConstruct ==
    \E start \in Pts, end \in Pts, text \in Texts :
        /\ ~objs[1].alive
        /\ objs' = [objs EXCEPT ![1] = AssEvent(start, end, text)]
        /\ obj_seen' = <<>>
        /\ obj_last' = ObjOp("AssEvent", 1, 0)
        /\ UNCHANGED <<obj_items, notObj>>

\* event.start = value, event.end = value
ObjSetPts ==
    \E e \in Objects, attribute \in {"start", "end"}, value \in Pts :
        LET w == ObservableObject_setattr(objs[e], e, obj_items, attribute,
                                          value)
        IN /\ objs[e].alive
           /\ objs' = [objs EXCEPT ![e] = w.o]
           /\ obj_seen' = w.emitted
           /\ obj_last' = ObjOp("set", e, 0)
           /\ UNCHANGED <<obj_items, notObj>>

\* event.text = value
ObjSetText ==
    \E e \in Objects, value \in Texts :
        LET w == ObservableObject_setattr(objs[e], e, obj_items, "text", value)
        IN /\ objs[e].alive
           /\ objs' = [objs EXCEPT ![e] = w.o]
           /\ obj_seen' = w.emitted
           /\ obj_last' = ObjOp("set", e, 0)
           /\ UNCHANGED <<obj_items, notObj>>

\* event.duration = value
ObjSetDuration ==
    \E e \in Objects, value \in Durations :
        LET w == ObservableObject_setattr_duration(objs[e], e, obj_items,
                                                   value)
        IN /\ objs[e].alive
           /\ objs' = [objs EXCEPT ![e] = w.o]
           /\ obj_seen' = w.emitted
           /\ obj_last' = ObjOp("set_duration", e, value)
           /\ UNCHANGED <<obj_items, notObj>>

\* copy(event) of the first event, once
ObjCopy ==
    /\ objs[1].alive
    /\ ~objs[2].alive
    /\ objs' = [objs EXCEPT ![2] = copy(objs[1])]
    /\ obj_seen' = <<>>
    /\ obj_last' = ObjOp("copy", 2, 0)
    /\ UNCHANGED <<obj_items, notObj>>

\* events.insert(idx, event) of an event without an owner: the event is put
\* into _items, _on_items_insertion writes its event_list, then the other
\* slots of items_inserted run
ObjInsert ==
    \E e \in Objects, idx \in 0..Len(obj_items) :
        LET items == SliceInsert(obj_items, idx, <<e>>)
            w == ObservableObject_setattr(objs[e], e, items, "event_list",
                                          TheList)
        IN /\ objs[e].alive
           /\ objs[e].event_list = None
           /\ obj_items' = items
           /\ objs' = [objs EXCEPT ![e] = w.o]
           /\ obj_seen' = Append(w.emitted,
                                 ObjSeen("items_inserted", idx, e, w.o))
           /\ obj_last' = ObjOp("insert", e, idx)
           /\ UNCHANGED notObj

\* events.remove(idx, 1): _on_items_removal writes the event_list of the
\* event while items_about_to_be_removed is out, then the event is dropped
\* from _items and items_removed is emitted
ObjRemove ==
    \E idx \in 0..(Len(obj_items) - 1) :
        LET e == obj_items[idx + 1]
            w == ObservableObject_setattr(objs[e], e, obj_items, "event_list",
                                          None)
        IN /\ obj_items' = SliceRemove(obj_items, idx, 1)
           /\ objs' = [objs EXCEPT ![e] = w.o]
           /\ obj_seen' = Append(w.emitted,
                                 ObjSeen("items_removed", idx, e, w.o))
           /\ obj_last' = ObjOp("remove", e, idx)
           /\ UNCHANGED notObj

ObjNext ==
    \/ ObjConstruct \/ ObjSetPts \/ ObjSetText \/ ObjSetDuration
    \/ ObjCopy \/ ObjInsert \/ ObjRemove

\* ------------------------------------- Style and Subtitle in their lists
StyleNames == {"Default", "Alt"}
SubtitleTimes == 0..1

EntOp(op, list, pos, attribute) ==
    [op |-> op, list |-> list, pos |-> pos, attribute |-> attribute]

\* a signal of one of the two lists, with its key (the name for a style, the
\* index for a subtitle or a range) and the lists as a slot finds them while
\* the signal is out
EntSignal(list, signal, name, idx, st, subs) ==
    [list |-> list, signal |-> signal, name |-> name, index |-> idx,
     styles |-> st, lines |-> subs]

\* Style(styles=self, name=name): the other fields take the values of
\* Style.prop
Style(name) ==
    [name |-> name, font_size |-> 20, bold |-> TRUE, margin_left |-> 20,
     margin_right |-> 20, margin_vertical |-> 20]

\* Subtitle(self, start=start, end=end), an object of its own
Subtitle(uid, start, end) == [uid |-> uid, start |-> start, end |-> end]

\* StyleList.get_by_name: the position of the first style of that name
get_by_name(st, name) ==
    IF \E k \in 1..Len(st) : st[k].name = name
    THEN CHOOSE k \in 1..Len(st) :
             /\ st[k].name = name
             /\ \A j \in 1..(k - 1) : st[j].name # name
    ELSE None

\* Subtitle.id: the index of the first item of the list that is the subtitle
id(subs, uid) ==
    IF \E k \in 1..Len(subs) : subs[k].uid = uid
    THEN (CHOOSE k \in 1..Len(subs) :
              /\ subs[k].uid = uid
              /\ \A j \in 1..(k - 1) : subs[j].uid # uid) - 1
    ELSE None

\* the write of one attribute of a Style
StyleWritten(style, attribute, value) ==
    IF attribute = "name" THEN [style EXCEPT !.name = value]
    ELSE [style EXCEPT !.bold = value]

\* Style._before_change: _old_name is kept and item_about_to_change is
\* emitted with the name
Style_before_change(st, pos, subs) ==
    [_old_name |-> st[pos].name,
     emitted |-> <<EntSignal("styles", "item_about_to_change", st[pos].name,
                             None, st, subs)>>]

\* Style._after_change: item_changed is emitted with _old_name
Style_after_change(st, _old_name, subs) ==
    <<EntSignal("styles", "item_changed", _old_name, None, st, subs)>>

\* style.attribute = value on the style at pos: the pre-change hook, the
\* write, the post-change hook
Style_setattr(st, pos, attribute, value, subs) ==
    LET before == Style_before_change(st, pos, subs)
        new == [st EXCEPT ![pos] = StyleWritten(st[pos], attribute, value)]
    IN [data |-> new,
        emitted |-> before.emitted
                    \o Style_after_change(new, before._old_name, subs)]

\* Subtitle._before_change
Subtitle_before_change(subs, pos, st) ==
    IF id(subs, subs[pos].uid) # None
    THEN <<EntSignal("lines", "item_about_to_change", "",
                     id(subs, subs[pos].uid), st, subs)>>
    ELSE <<>>

\* Subtitle._after_change
Subtitle_after_change(subs, pos, st) ==
    IF id(subs, subs[pos].uid) # None
    THEN <<EntSignal("lines", "item_changed", "", id(subs, subs[pos].uid),
                     st, subs)>>
    ELSE <<>>

\* the write of one attribute of a Subtitle
SubtitleWritten(sub, attribute, value) ==
    IF attribute = "start" THEN [sub EXCEPT !.start = value]
    ELSE [sub EXCEPT !.end = value]

\* subtitle.attribute = value on the subtitle at pos
Subtitle_setattr(subs, pos, attribute, value, st) ==
    LET new == [subs EXCEPT ![pos] = SubtitleWritten(subs[pos], attribute,
                                                     value)]
    IN [data |-> new,
        emitted |-> Subtitle_before_change(subs, pos, st)
                    \o Subtitle_after_change(new, pos, st)]

\* ListModel.insert(idx, items) on one of the two lists
EntInserted(list, idx, count, st, subs, new_st, new_subs) ==
    IF count = 0 THEN <<>>
    ELSE <<EntSignal(list, "items_about_to_be_inserted", "", idx, st, subs),
           EntSignal(list, "items_inserted", "", idx, new_st, new_subs)>>

\* ListModel.remove(idx, count) on one of the two lists
EntRemoved(list, idx, st, subs, new_st, new_subs) ==
    <<EntSignal(list, "items_about_to_be_removed", "", idx, st, subs),
      EntSignal(list, "items_removed", "", idx, new_st, new_subs)>>

\* the styles of a parsed file: ass_source.styles is a dict, so no name
\* is there twice
StyleDicts ==
    {<<>>,
     <<[key |-> "Default", value |-> _sync_ssa_style(Style("Default"))]>>,
     <<[key |-> "Alt", value |-> _sync_ssa_style(Style("Alt"))],
       [key |-> "Default", value |-> _sync_ssa_style(Style("Default"))]>>}

\* SubtitlesApi.__init__: styles.insert_one('Default'), no lines
EntInit ==
    /\ style_list = <<Style("Default")>>
    /\ subtitle_list = <<>>
    /\ ent_sig = <<>>
    /\ ent_last = EntOp("init", "", 0, "")

\* StyleList.insert_one(name, index)
StyleInsertOne ==
    \E name \in StyleNames, idx \in 0..Len(style_list) :
        LET new == SliceInsert(style_list, idx, <<Style(name)>>)
        IN /\ Len(style_list) < MaxStyles
           /\ style_list' = new
           /\ ent_sig' = EntInserted("styles", idx, 1, style_list,
                                     subtitle_list, new, subtitle_list)
           /\ ent_last' = EntOp("insert_one", "styles", idx + 1, "")
           /\ UNCHANGED <<subtitle_list, notEnt>>

\* style.name = value
StyleRename ==
    \E pos \in 1..Len(style_list), value \in StyleNames :
        LET w == Style_setattr(style_list, pos, "name", value, subtitle_list)
        IN /\ style_list' = w.data
           /\ ent_sig' = w.emitted
           /\ ent_last' = EntOp("set", "styles", pos, "name")
           /\ UNCHANGED <<subtitle_list, notEnt>>

\* style.bold = value
StyleSetBold ==
    \E pos \in 1..Len(style_list), value \in BOOLEAN :
        LET w == Style_setattr(style_list, pos, "bold", value, subtitle_list)
        IN /\ style_list' = w.data
           /\ ent_sig' = w.emitted
           /\ ent_last' = EntOp("set", "styles", pos, "bold")
           /\ UNCHANGED <<subtitle_list, notEnt>>

\* StyleList.load_from_ass
StyleLoad ==
    \E d \in StyleDicts :
        LET collection == styles_load_from_ass(d)
        IN /\ style_list' = collection
           /\ ent_sig' =
                EntRemoved("styles", 0, style_list, subtitle_list, <<>>,
                           subtitle_list)
                \o EntInserted("styles", 0, Len(collection), <<>>,
                               subtitle_list, collection, subtitle_list)
           /\ ent_last' = EntOp("load_from_ass", "styles", 0, "")
           /\ UNCHANGED <<subtitle_list, notEnt>>

\* SubtitleList.insert_one(idx, start=start, end=end)
SubtitleInsertOne ==
    \E idx \in 0..Len(subtitle_list), start \in SubtitleTimes :
        LET uid == CHOOSE u \in 1..(Len(subtitle_list) + 1) :
                       \A k \in 1..Len(subtitle_list) :
                           subtitle_list[k].uid # u
            new == SliceInsert(subtitle_list, idx,
                               <<Subtitle(uid, start, start)>>)
        IN /\ Len(subtitle_list) < MaxSubs
           /\ subtitle_list' = new
           /\ ent_sig' = EntInserted("lines", idx, 1, style_list,
                                     subtitle_list, style_list, new)
           /\ ent_last' = EntOp("insert_one", "lines", idx + 1, "")
           /\ UNCHANGED <<style_list, notEnt>>

\* subtitle.start = value, subtitle.end = value
SubtitleSet ==
    \E pos \in 1..Len(subtitle_list), attribute \in {"start", "end"},
       value \in SubtitleTimes :
        LET w == Subtitle_setattr(subtitle_list, pos, attribute, value,
                                  style_list)
        IN /\ subtitle_list' = w.data
           /\ ent_sig' = w.emitted
           /\ ent_last' = EntOp("set", "lines", pos, attribute)
           /\ UNCHANGED <<style_list, notEnt>>

EntNext ==
    \/ StyleInsertOne \/ StyleRename \/ StyleSetBold \/ StyleLoad
    \/ SubtitleInsertOne \/ SubtitleSet

\* --------------------------------------- reading and writing one event
\* the parts a file event's text is made of: plain text, a TIME tag, a NOTE
\* tag; the text holds at most one tag of each kind
TagTimes == {-1, 12}
ContainerTimes == {0, 30}
NoteContents == {<<>>, <<"a">>, <<BS, "[">>}

TimeTag(start, end) ==
    TIME_OPEN \o FormatInt(start) \o <<",">> \o FormatInt(end) \o <<"}">>

NoteTag(content) == NOTE_OPEN \o content \o <<"}">>

Block(kind, text, start, end, note) ==
    [kind |-> kind, text |-> text, start |-> start, end |-> end,
     note |-> note]

Blocks ==
    {Block("text", <<"a">>, 0, 0, <<>>)}
    \cup {Block("time", TimeTag(a, b), a, b, <<>>) :
              a \in TagTimes, b \in TagTimes}
    \cup {Block("note", NoteTag(c), 0, 0, c) : c \in NoteContents}

KindCount(blocks, kind) ==
    Cardinality({k \in 1..Len(blocks) : blocks[k].kind = kind})

BlockLists ==
    {b \in UNION {[1..n -> Blocks] : n \in 0..MaxBlocks} :
        KindCount(b, "time") <= 1 /\ KindCount(b, "note") <= 1}

RECURSIVE BlocksText(_)
BlocksText(blocks) ==
    IF blocks = <<>> THEN <<>>
    ELSE Head(blocks).text \o BlocksText(Tail(blocks))

\* the event pysubs2 parsed from a Dialogue line of the file
SSAEvent(start, end, text) ==
    [start |-> start, end |-> end, style |-> "Default", name |-> "",
     text |-> text, effect |-> "", layer |-> 0, marginl |-> 0, marginv |-> 0,
     marginr |-> 0, type |-> "Dialogue"]

NoSSAEvent == SSAEvent(0, 0, <<>>)

ReadIdle ==
    /\ rd_blocks = <<>>
    /\ rd_event = NoSSAEvent
    /\ rd_sub = from_ssa_event(NoSSAEvent)
    /\ rd_ssa = NoSSAEvent
    /\ rd_pc = "idle"

\* the events of the file that is read
ReadInit ==
    /\ rd_blocks \in BlockLists
    /\ \E start \in ContainerTimes, end \in ContainerTimes :
          rd_event = SSAEvent(start, end, BlocksText(rd_blocks))
    /\ rd_sub = from_ssa_event(NoSSAEvent)
    /\ rd_ssa = NoSSAEvent
    /\ rd_pc = "file"

\* Subtitle.from_ssa_event(subtitles, ssa_event); Subtitle.__init__ ends
\* with _sync_ssa_event
ReadEvent ==
    /\ rd_pc = "file"
    /\ rd_sub' = from_ssa_event(rd_event)
    /\ rd_ssa' = _sync_ssa_event(from_ssa_event(rd_event))
    /\ rd_pc' = "read"
    /\ UNCHANGED <<rd_blocks, rd_event, notRead>>

\* subtitle.start = value, subtitle.end = value: _after_change runs
\* _sync_ssa_event
WriteTime ==
    \E attribute \in {"start", "end"}, value \in TagTimes :
        LET sub == IF attribute = "start" THEN [rd_sub EXCEPT !.start = value]
                   ELSE [rd_sub EXCEPT !.end = value]
        IN /\ rd_pc \in {"read", "written"}
           /\ rd_sub' = sub
           /\ rd_ssa' = _sync_ssa_event(sub)
           /\ rd_pc' = "written"
           /\ UNCHANGED <<rd_blocks, rd_event, notRead>>

\* subtitle.note = value
WriteNote ==
    \E value \in {<<>>, <<"a">>, <<"{">>} :
        LET sub == [rd_sub EXCEPT !.note = value]
        IN /\ rd_pc \in {"read", "written"}
           /\ rd_sub' = sub
           /\ rd_ssa' = _sync_ssa_event(sub)
           /\ rd_pc' = "written"
           /\ UNCHANGED <<rd_blocks, rd_event, notRead>>

ReadNext == ReadEvent \/ WriteTime \/ WriteNote

\* ------------------------------------------------ the drags of the audio widget
DragModes == {"VideoPosition", "SubtitleStart", "SubtitleEnd", "SubtitleSplit"}

\* self._drag_mode is None
NoDragMode == "None"

DragPts == 0..MaxDragPts

DragOp(op, mode, pts, raised) ==
    [op |-> op, mode |-> mode, pts |-> pts, raised |-> raised]

\* an AssEvent of api.subs.events, an object of its own
DragEvent(uid, start, end) == [uid |-> uid, start |-> start, end |-> end]

Uids(events) == [k \in 1..Len(events) |-> events[k].uid]

\* the executors' lists of events; an executor keeps them between drags
NoExecutor ==
    [selected_events |-> <<>>, source_events |-> <<>>, copied_events |-> <<>>]

\* current_stream.align_pts_to_near_frame(pts), the frames being two apart
align_pts_to_near_frame(pts) == (pts \div 2) * 2

\* if self._api.video.current_stream : pts = ...align_pts_to_near_frame(pts)
Aligned(stream, pts) ==
    IF stream THEN align_pts_to_near_frame(pts) ELSE pts

\* api.subs.selected_events
selected_events(events, sel) == [k \in 1..Len(sel) |-> events[sel[k] + 1].uid]

\* ass_event.start = pts, then start and end are swapped if start > end
SubtitleStart_write(e, pts) ==
    IF pts > e.end THEN [e EXCEPT !.start = e.end, !.end = pts]
    ELSE [e EXCEPT !.start = pts]

\* ass_event.end = pts, then start and end are swapped if start > end
SubtitleEnd_write(e, pts) ==
    IF e.start > pts THEN [e EXCEPT !.start = pts, !.end = e.start]
    ELSE [e EXCEPT !.end = pts]

\* SubtitleSplitDragModeExecutor.apply_drag: the end of every source event
\* and the start of every copy
SubtitleSplit_write(e, pts, ex) ==
    LET e1 == IF e.uid \in Range(ex.source_events)
              THEN [e EXCEPT !.end = pts] ELSE e
    IN IF e.uid \in Range(ex.copied_events)
       THEN [e1 EXCEPT !.start = pts] ELSE e1

\* apply_drag of the executor of a mode
apply_drag(mode, events, ex, stream, pts) ==
    [k \in 1..Len(events) |->
        IF mode = "SubtitleStart" /\ events[k].uid \in Range(ex.selected_events)
        THEN SubtitleStart_write(events[k], Aligned(stream, pts))
        ELSE IF mode = "SubtitleEnd"
                /\ events[k].uid \in Range(ex.selected_events)
        THEN SubtitleEnd_write(events[k], Aligned(stream, pts))
        ELSE IF mode = "SubtitleSplit"
        THEN SubtitleSplit_write(events[k], Aligned(stream, pts), ex)
        ELSE events[k]]

\* source_events: the events of the list whose interval holds pts
source_events(events, pts) ==
    Uids(SelectSeq(events, LAMBDA e : e.start <= pts /\ pts <= e.end))

reversed(s) == [k \in 1..Len(s) |-> s[Len(s) + 1 - k]]

\* a new object
NewUid(events) ==
    CHOOSE u \in 1..(Len(events) + 1) : u \notin Range(Uids(events))

\* one pass of the loop of SubtitleSplitDragModeExecutor.begin_drag:
\* assert source_event.index, the copy is inserted after the source event
SplitOne(r, source_event) ==
    LET idx == ObservableList_index(Uids(r.events), source_event)
        src == r.events[idx + 1]
        new_event == DragEvent(NewUid(r.events), src.start, src.end)
    IN IF idx = None \/ idx = 0 THEN [r EXCEPT !.raised = TRUE]
       ELSE [events |-> SliceInsert(r.events, idx + 1, <<new_event>>),
             copied_events |-> Append(r.copied_events, new_event.uid),
             idx |-> idx,
             raised |-> FALSE]

\* for source_event in reversed(self.source_events)
RECURSIVE split_loop(_, _)
split_loop(r, sources) ==
    IF sources = <<>> \/ r.raised THEN r
    ELSE split_loop(SplitOne(r, Head(sources)), Tail(sources))

\* begin_drag of the executor of a mode: the events, the selection and the
\* executor's lists after it, and whether it raised
begin_drag(mode, events, sel, ex, pts) ==
    LET ex1 == [ex EXCEPT !.selected_events = selected_events(events, sel)]
        sources == source_events(events, pts)
        r == split_loop([events |-> events, copied_events |-> <<>>,
                         idx |-> 0, raised |-> FALSE],
                        reversed(sources))
    IN IF mode # "SubtitleSplit" \/ sources = <<>>
       THEN [events |-> events, sel |-> sel, raised |-> FALSE,
             ex |-> IF mode = "SubtitleSplit"
                    THEN [ex1 EXCEPT !.source_events = <<>>,
                                     !.copied_events = <<>>]
                    ELSE ex1]
       ELSE [events |-> r.events,
             sel |-> IF r.raised THEN sel ELSE <<r.idx, r.idx + 1>>,
             raised |-> r.raised,
             ex |-> [ex1 EXCEPT !.source_events = sources,
                                !.copied_events = r.copied_events]]

\* DragModeExecutor.end_drag: self._api.undo.push()
end_drag(pushes) == pushes + 1

\* (variant: the active drag is not ended)
begin_drag_mode_not_ending(w, drag_mode, stream, pts) ==
    LET b == begin_drag(drag_mode, w.events, w.sel, w.ex, pts)
    IN [pushes |-> w.pushes,
        _drag_mode |-> drag_mode,
        events |-> IF b.raised THEN b.events
                   ELSE apply_drag(drag_mode, b.events, b.ex, stream, pts),
        sel |-> b.sel, ex |-> b.ex, raised |-> b.raised]

\* BaseAudioWidget.begin_drag_mode, w being the widget's drag mode, the
\* pushes made, the document and the executors' lists
begin_drag_mode(w, drag_mode, stream, pts) ==
    LET b == begin_drag(drag_mode, w.events, w.sel, w.ex, pts)
    IN [pushes |-> IF w._drag_mode # NoDragMode THEN end_drag(w.pushes)
                   ELSE w.pushes,
        _drag_mode |-> drag_mode,
        events |-> IF b.raised THEN b.events
                   ELSE apply_drag(drag_mode, b.events, b.ex, stream, pts),
        sel |-> b.sel, ex |-> b.ex, raised |-> b.raised]

\* BaseAudioWidget.end_drag_mode
end_drag_mode(mode_now, pushes) ==
    [pushes |-> IF mode_now # NoDragMode THEN end_drag(pushes) ELSE pushes,
     _drag_mode |-> NoDragMode]

DragIdle ==
    /\ dr_events = <<>>
    /\ dr_sel = <<>>
    /\ current_stream = FALSE
    /\ _drag_mode = NoDragMode
    /\ executors = NoExecutor
    /\ undo = 0
    /\ dr_begun = 0
    /\ dr_last = DragOp("init", NoDragMode, 0, FALSE)

\* the documents the widget works on: every event has start <= end, the
\* selection is a sorted list of indexes of the list
DragEventLists ==
    {ev \in UNION {[1..n -> {DragEvent(0, a, b) :
                                 a \in DragPts, b \in DragPts}] :
                       n \in 0..MaxDragEvents} :
        \A k \in 1..Len(ev) : ev[k].start <= ev[k].end}

DragSelections(n) ==
    {s \in UNION {[1..m -> 0..(n - 1)] : m \in 0..n} :
        \A k \in 1..(Len(s) - 1) : s[k] < s[k + 1]}

DragInit ==
    /\ \E ev \in DragEventLists :
          /\ dr_events = [k \in 1..Len(ev) |-> [ev[k] EXCEPT !.uid = k]]
          /\ dr_sel \in DragSelections(Len(ev))
    /\ current_stream \in BOOLEAN
    /\ _drag_mode = NoDragMode
    /\ executors = NoExecutor
    /\ undo = 0
    /\ dr_begun = 0
    /\ dr_last = DragOp("init", NoDragMode, 0, FALSE)

\* widget.begin_drag_mode(drag_mode, event)
BeginDragMode ==
    \E drag_mode \in DragModes, pts \in DragPts :
        LET r == begin_drag_mode(
                     [_drag_mode |-> _drag_mode, pushes |-> undo,
                      events |-> dr_events, sel |-> dr_sel, ex |-> executors],
                     drag_mode, current_stream, pts)
        IN /\ dr_begun < MaxDrags
           /\ undo' = r.pushes
           /\ _drag_mode' = r._drag_mode
           /\ dr_events' = r.events
           /\ dr_sel' = r.sel
           /\ executors' = r.ex
           /\ dr_begun' = dr_begun + 1
           /\ dr_last' = DragOp("begin_drag_mode", drag_mode, pts, r.raised)
           /\ UNCHANGED <<current_stream, notDrag>>

\* widget.mouseMoveEvent(event)
MouseMoveEvent ==
    \E pts \in DragPts :
        /\ dr_events' = IF _drag_mode # NoDragMode
                        THEN apply_drag(_drag_mode, dr_events, executors,
                                        current_stream, pts)
                        ELSE dr_events
        /\ dr_last' = DragOp("mouseMoveEvent", _drag_mode, 0, FALSE)
        /\ UNCHANGED <<dr_sel, current_stream, _drag_mode, executors, undo,
                       dr_begun, notDrag>>

\* widget.mouseReleaseEvent(event): self.end_drag_mode()
EndDragMode ==
    LET r == end_drag_mode(_drag_mode, undo)
    IN /\ undo' = r.pushes
       /\ _drag_mode' = r._drag_mode
       /\ dr_last' = DragOp("end_drag_mode", _drag_mode, 0, FALSE)
       /\ UNCHANGED <<dr_events, dr_sel, current_stream, executors, dr_begun,
                      notDrag>>

DragNext == BeginDragMode \/ MouseMoveEvent \/ EndDragMode

\* ------------------------------------------------------------ operations
SelectionInputs ==
    UNION {[1..n -> 0..MaxIndex] : n \in 0..MaxSelLen}

\* SubtitlesApi.__init__
Init ==
    /\ lines = <<>>
    /\ selected_indexes = <<>>
    /\ styles = <<"Default">>
    /\ path = None
    /\ _ass_source = EMPTY_ASS
    /\ last = Op("init", 0, 0, <<>>, <<>>)
    /\ sig = <<>>
    /\ seen = <<>>
    /\ EvInit
    /\ MetaIdle
    /\ DocIdle
    /\ CmdInit
    /\ ObjInit
    /\ SplitIdle
    /\ EntInit /\ ReadIdle /\ DragIdle

\* api.subs.selected_indexes = new_selection
SetSelection ==
    \E new_selection \in SelectionInputs :
        LET r == selected_indexes_setter(selected_indexes, new_selection,
                                         Len(lines))
        IN /\ selected_indexes' = r.stored
           /\ sig' = r.emitted
           /\ last' = Op("set", 0, 0, new_selection, selected_indexes)
           /\ seen' = <<>>
           /\ UNCHANGED <<lines, styles, path, _ass_source, notApi>>

\* api.subs.lines.insert_one(idx, ...)
InsertOne ==
    /\ Len(lines) < MaxLines
    /\ \E idx \in 0..Len(lines) :
        LET r == ListModelInsert(lines, idx, <<NewSubtitle(lines)>>)
        IN /\ lines' = r.data
           /\ sig' = r.emitted
           /\ last' = Op("insert", idx, 1, <<>>, selected_indexes)
           /\ seen' = <<>>
           /\ UNCHANGED <<selected_indexes, styles, path, _ass_source, notApi>>

\* api.subs.lines.remove(idx, count)
Remove ==
    \E idx \in 0..(Len(lines) - 1) :
      \E count \in 1..(Len(lines) - idx) :
        LET r == ListModelRemove(lines, selected_indexes, idx, count)
        IN /\ lines' = r.data
           /\ selected_indexes' = r.sel
           /\ sig' = r.emitted
           /\ last' = Op("remove", idx, count, <<>>, selected_indexes)
           /\ seen' = <<>>
           /\ UNCHANGED <<styles, path, _ass_source, notApi>>

\* the documents pysubs2.load can return: a number of events, the style names
Documents ==
    {[path |-> 1, source |-> 1, events |-> n, styles |-> st] :
        n \in 0..MaxLoad, st \in {<<"Default", "Alt">>}}

\* (variant: the new items are inserted in front, then the old ones removed)
load_from_ass_insert_first(data, sel, collection) ==
    LET ins == ListModelInsert(data, 0, collection)
        rm == ListModelRemove(ins.data, sel, Len(collection), Len(data))
    IN [data |-> rm.data, sel |-> rm.sel,
        removal |-> rm.emitted, insertion |-> ins.emitted,
        emitted |-> ins.emitted \o rm.emitted]

\* SubtitleList.load_from_ass: the collection is built first, then the old
\* items are removed, then the new ones inserted
load_from_ass(data, sel, collection) ==
    LET rm == ListModelRemove(data, sel, 0, Len(data))
        ins == ListModelInsert(rm.data, 0, collection)
    IN [data |-> ins.data, sel |-> rm.sel,
        removal |-> rm.emitted, insertion |-> ins.emitted,
        emitted |-> rm.emitted \o ins.emitted]

\* StyleList.remove / load_from_ass: no handler of the selection is connected
\* to the style list, so only the list's own signals are emitted
StylesRemoveAll(st) ==
    <<Signal("styles.items_about_to_be_removed", 0, Len(st), <<>>, FALSE,
             Len(st)),
      Signal("styles.items_removed", 0, Len(st), <<>>, FALSE, 0)>>

StylesInsert(st) ==
    IF st = <<>> THEN <<>>
    ELSE <<Signal("styles.items_about_to_be_inserted", 0, Len(st), <<>>,
                  FALSE, 0),
           Signal("styles.items_inserted", 0, Len(st), <<>>, FALSE, Len(st))>>

\* SubtitlesApi.unload
Unload ==
    LET s1 == selected_indexes_setter(selected_indexes, <<>>, Len(lines))
        rm == ListModelRemove(lines, s1.stored, 0, Len(lines))
    IN /\ path' = None
       /\ _ass_source' = EMPTY_ASS
       /\ seen' = <<>>
       /\ selected_indexes' = rm.sel
       /\ lines' = rm.data
       /\ styles' = SliceRemove(styles, 0, Len(styles))
       /\ sig' = s1.emitted \o rm.emitted \o StylesRemoveAll(styles)
                 \o <<Signal("loaded", 0, 0, <<>>, FALSE, Len(rm.data))>>
       /\ last' = Op("unload", 0, 0, <<>>, selected_indexes)
       /\ UNCHANGED notApi

\* What a slot reads while the signals of one list operation are out: the
\* list holds its contents of before the operation until the signal that
\* reports the operation done, and those of after it from then on.
Done == {"items_removed", "items_inserted",
         "styles.items_removed", "styles.items_inserted"}

Phase(emitted, k, before, after) ==
    IF \E j \in 1..k : emitted[j].name \in Done THEN after ELSE before

SeenEvents(emitted, before, after, styles_phase, source_phase) ==
    [k \in 1..Len(emitted) |->
        [name |-> emitted[k].name,
         events |-> Phase(emitted, k, before, after),
         styles |-> styles_phase,
         source |-> source_phase]]

SeenStyles(emitted, before, after, events_phase, source_phase) ==
    [k \in 1..Len(emitted) |->
        [name |-> emitted[k].name,
         events |-> events_phase,
         styles |-> Phase(emitted, k, before, after),
         source |-> source_phase]]

\* SubtitlesApi.load_ass: path and source are assigned, then the selection,
\* then the lines are replaced, then the styles, then loaded is emitted
load_ass_seen(s1, ld, old_styles, new_styles) ==
    SeenEvents(s1.emitted, "old", "old", "old", "new")
    \o SeenEvents(ld.removal, "old", "none", "old", "new")
    \o SeenEvents(ld.insertion, "none", "new", "old", "new")
    \o SeenStyles(StylesRemoveAll(old_styles), "old", "none", "new", "new")
    \o SeenStyles(StylesInsert(new_styles), "none", "new", "new", "new")
    \o <<[name |-> "loaded", events |-> "new", styles |-> "new",
          source |-> "new"]>>

\* SubtitlesApi.load_ass, pysubs2.load returned doc
Load ==
    \E doc \in Documents :
        LET s1 == selected_indexes_setter(selected_indexes, <<>>, Len(lines))
            ld == load_from_ass(lines, s1.stored,
                                [k \in 1..doc.events |-> k])
        IN /\ path' = doc.path
           /\ _ass_source' = doc.source
           /\ seen' = load_ass_seen(s1, ld, styles, doc.styles)
           /\ selected_indexes' = ld.sel
           /\ lines' = ld.data
           /\ styles' = doc.styles
           /\ sig' = s1.emitted \o ld.emitted \o StylesRemoveAll(styles)
                     \o StylesInsert(doc.styles)
                     \o <<Signal("loaded", 0, 0, <<>>, FALSE, Len(ld.data))>>
           /\ last' = Op("load", 0, doc.events, <<>>, selected_indexes)
           /\ UNCHANGED notApi

\* (variant: the path is assigned and the selection cleared before the parse)
load_ass_raised_after_assignment(new_path, old_path, sel, nlines) ==
    LET s1 == selected_indexes_setter(sel, <<>>, nlines)
    IN [path |-> new_path, sel |-> s1.stored, emitted |-> s1.emitted]

\* SubtitlesApi.load_ass up to the re-raise of the exception of pysubs2.load:
\* the parse is the first statement, nothing is assigned or emitted before it
load_ass_raised(new_path, old_path, sel, nlines) ==
    [path |-> old_path, sel |-> sel, emitted |-> <<>>]

\* SubtitlesApi.load_ass, pysubs2.load raised
LoadFail ==
    \E doc \in Documents :
        LET r == load_ass_raised(doc.path, path, selected_indexes, Len(lines))
        IN /\ path' = r.path
           /\ selected_indexes' = r.sel
           /\ sig' = r.emitted
           /\ last' = Op("load_failed", 0, 0, <<>>, selected_indexes)
           /\ seen' = <<>>
           /\ UNCHANGED <<lines, styles, _ass_source, notApi>>

Next == SetSelection \/ InsertOne \/ Remove \/ Unload \/ Load \/ LoadFail

Spec == Init /\ [][Next]_vars

\* the event lists on their own
InitEvents == ApiIdle /\ EvInit /\ MetaIdle /\ DocIdle /\ CmdInit /\ ObjInit /\ SplitIdle
    /\ EntInit /\ ReadIdle /\ DragIdle

SpecEvents == InitEvents /\ [][EvNext]_vars

\* the packing of one event's text on its own
InitMeta == ApiIdle /\ EvInit /\ MetaInit /\ DocIdle /\ CmdInit /\ ObjInit /\ SplitIdle
    /\ EntInit /\ ReadIdle /\ DragIdle

SpecMeta == InitMeta /\ [][MetaNext]_vars

\* saving a document and loading the saved file
InitDoc == ApiIdle /\ EvInit /\ MetaIdle /\ DocInit /\ CmdInit /\ ObjInit /\ SplitIdle
    /\ EntInit /\ ReadIdle /\ DragIdle

SpecDoc == InitDoc /\ [][DocNext]_vars

\* the command subsystem on its own
InitCmd == ApiIdle /\ EvInit /\ MetaIdle /\ DocIdle /\ CmdInit /\ ObjInit /\ SplitIdle
    /\ EntInit /\ ReadIdle /\ DragIdle

SpecCmd == InitCmd /\ [][CmdNext]_vars

\* the reloading of the commands on its own
InitReload == ApiIdle /\ EvInit /\ MetaIdle /\ DocIdle /\ CmdInit /\ ObjInit /\ SplitIdle
    /\ EntInit /\ ReadIdle /\ DragIdle

SpecReload == InitReload /\ [][ReloadNext]_vars

\* one event, its copy and their list
InitObj == ApiIdle /\ EvInit /\ MetaIdle /\ DocIdle /\ CmdInit /\ ObjInit /\ SplitIdle
    /\ EntInit /\ ReadIdle /\ DragIdle

SpecObj == InitObj /\ [][ObjNext]_vars

\* the splitting of a command line on its own
InitSplit ==
    ApiIdle /\ EvInit /\ MetaIdle /\ DocIdle /\ CmdInit /\ ObjInit /\ SplitInit
    /\ EntInit /\ ReadIdle /\ DragIdle

SpecSplit == InitSplit /\ [][SplitNext]_vars

\* the styles and subtitles of a document and the writes of their fields
InitEnt ==
    ApiIdle /\ EvInit /\ MetaIdle /\ DocIdle /\ CmdInit /\ ObjInit /\ SplitIdle
    /\ EntInit /\ ReadIdle /\ DragIdle

SpecEnt == InitEnt /\ [][EntNext]_vars

\* one event of a file, read and written back
InitRead ==
    ApiIdle /\ EvInit /\ MetaIdle /\ DocIdle /\ CmdInit /\ ObjInit /\ SplitIdle
    /\ EntInit /\ ReadInit /\ DragIdle

SpecRead == InitRead /\ [][ReadNext]_vars

\* the drags of the audio widget on their own
InitDrag ==
    ApiIdle /\ EvInit /\ MetaIdle /\ DocIdle /\ CmdInit /\ ObjInit /\ SplitIdle
    /\ EntInit /\ ReadIdle /\ DragInit

SpecDrag == InitDrag /\ [][DragNext]_vars

\* ------------------------------------------------------------- selection
RemovedRange(idx, count) == idx..(idx + count - 1)

\* the objects of data that the indexes of sel designate
Designated(data, sel) ==
    {data[j + 1] : j \in {i \in Range(sel) : 0 <= i /\ i < Len(data)}}

Count(s, v) == Cardinality({k \in 1..Len(s) : s[k] = v})

SameIndexesAnyOrder(a, b) ==
    /\ Len(a) = Len(b)
    /\ \A v \in Range(a) \cup Range(b) : Count(a, v) = Count(b, v)

SignalsNamed(name) == SelectSeq(sig, LAMBDA e : e.name = name)

\* C1: after lines.remove(idx, count) the selection is the set of
\* j - |{k removed : k <= j}| over the previously selected j outside the
\* removed range, for every count.
C1_RemapOnRemoval ==
    last.op = "remove" =>
        Range(selected_indexes) =
            {j - Cardinality({k \in RemovedRange(last.idx, last.count) : k <= j}) :
                j \in Range(last.old_sel) \ RemovedRange(last.idx, last.count)}

\* a batched removal that drops one selected index and shifts another
C1_Witness ==
    /\ last.op = "remove"
    /\ last.count >= 2
    /\ \A j \in Range(last.old_sel) : j < Len(lines) + last.count
    /\ \E j \in Range(last.old_sel) : j \in RemovedRange(last.idx, last.count)
    /\ \E j \in Range(last.old_sel) :
        /\ j >= last.idx + last.count
        /\ j - last.count \in Range(selected_indexes)

\* C2: the stored selection is sorted ascending and holds no index twice.
C2_SortedUnique ==
    \A k \in 1..(Len(selected_indexes) - 1) :
        selected_indexes[k] < selected_indexes[k + 1]

\* C3: every selected index i satisfies 0 <= i < len(lines).
C3_SelectionInRange ==
    \A i \in Range(selected_indexes) : 0 <= i /\ i < Len(lines)

\* the number of assignments to selected_indexes an operation makes
Assignments(op) ==
    CASE op = "set" -> 1
      [] op = "remove" -> 1
      [] op = "unload" -> 2
      [] op = "load" -> 2
      [] OTHER -> 0

C5_RemapBeforeRemoval ==
    [][last'.op = "remove" =>
        /\ Len(sig') = 3
        /\ sig'[1].name = "items_about_to_be_removed"
        /\ sig'[2].name = "selection_changed"
        /\ sig'[2].nlines = Len(lines)
        /\ sig'[2].sel = selected_indexes'
        /\ sig'[3].name = "items_removed"
        /\ sig'[3].nlines = Len(lines')
        /\ Designated(lines', selected_indexes') =
             Designated(lines, selected_indexes) \
               {lines[k + 1] : k \in RemovedRange(last'.idx, last'.count)}
    ]_vars

\* a removal in front of a selected line that stays
C5_Witness ==
    /\ last.op = "remove"
    /\ sig[2].nlines = Len(lines) + last.count
    /\ \E j \in Range(last.old_sel) : j >= last.idx + last.count
    /\ selected_indexes # <<>>
    /\ C3_SelectionInRange

\* C6: after an insertion at a position <= a selected index the selection
\* designates the same objects as before.
C6_InsertKeepsSelectedObjects ==
    [][(/\ last'.op = "insert"
        /\ C2_SortedUnique
        /\ C3_SelectionInRange
        /\ \E j \in Range(selected_indexes) : last'.idx <= j)
       => Designated(lines', selected_indexes')
            = Designated(lines, selected_indexes)
    ]_vars

\* ------------------------------------------------------------ event lists
Occurrences(e) ==
    {<<l, k>> \in Lists \X (1..MaxItems + MaxBatch) :
        k <= Len(_items[l]) /\ _items[l][k] = e}

\* C7: event_list of an event is L exactly when the event is an element of
\* L, no event is an element of two lists or twice of one list, and a
\* removed event has event_list None.
C7_ExclusiveOwnership ==
    \A e \in Events :
        /\ \A l \in Lists : (event_list[e] = l) <=> (e \in Range(_items[l]))
        /\ Cardinality(Occurrences(e)) <= 1
        /\ (Occurrences(e) = {}) => event_list[e] = None

\* C8: every event of a list has index = its position, number = index + 1,
\* prev / next the neighbours (None at the ends); a detached event has all
\* four None.
C8_IndexPrevNext ==
    /\ \A l \in Lists : \A k \in 1..Len(_items[l]) :
        LET e == _items[l][k]
        IN /\ index(e) = k - 1
           /\ number(e) = k
           /\ prev(e) = IF k = 1 THEN None ELSE _items[l][k - 1]
           /\ next(e) = IF k = Len(_items[l]) THEN None ELSE _items[l][k + 1]
    /\ \A e \in Events :
        Occurrences(e) = {} =>
            /\ index(e) = None
            /\ number(e) = None
            /\ prev(e) = None
            /\ next(e) = None

\* ------------------------------------------------------------- meta tags
\* C9: _extract_meta(_pack_meta(text, Meta(note, start, end))) gives back
\* the start, end, note and text that went in (a missing NOTE tag read as
\* the empty note, as from_ssa_event reads it).
C9_PackExtractRoundTrip ==
    meta_pc = "extracted" =>
        /\ meta_out.text = meta_in.text
        /\ meta_out.meta.has_time
        /\ meta_out.meta.start = meta_in.meta.start
        /\ meta_out.meta.end = meta_in.meta.end
        /\ (IF meta_out.meta.has_note THEN meta_out.meta.note ELSE <<>>)
             = meta_in.meta.note

\* C10: saving a document and loading the saved file gives as many events
\* and styles as were saved, each equal to the original in every field.
C10_SaveLoadRoundTrip ==
    doc_pc = "loaded" =>
        /\ Len(doc_out.events) = Len(doc_in.events)
        /\ Len(doc_out.styles) = Len(doc_in.styles)
        /\ doc_out.events = doc_in.events
        /\ doc_out.styles = doc_in.styles

\* ------------------------------------------------------ unload and load
\* C11: after construction and after unload the document holds exactly one
\* style, named "Default", no event and an empty selection.
C11_UnloadedDocument ==
    last.op \in {"init", "unload"} =>
        /\ styles = <<"Default">>
        /\ lines = <<>>
        /\ selected_indexes = <<>>
\* C12: a load emits loaded exactly once, as its last signal, when events
\* and styles are both replaced; and no signal of the load is out while the
\* events of the new document stand beside styles or source of the old one.
C12_LoadedOnceAtEnd ==
    last.op = "load" =>
        /\ Len(SignalsNamed("loaded")) = 1
        /\ sig[Len(sig)].name = "loaded"
        /\ seen[Len(seen)].events = "new"
        /\ seen[Len(seen)].styles = "new"

C12_NoMixedDocument ==
    last.op = "load" =>
        /\ C12_LoadedOnceAtEnd
        /\ \A k \in 1..Len(seen) :
              (seen[k].events = "new" /\ last.count > 0) =>
                  seen[k].styles = "new" /\ seen[k].source = "new"
\* C13: a load whose parse fails raises and leaves path, source, events,
\* styles and selection as they were, and emits neither loaded nor
\* selection_changed.
C13_FailedLoadChangesNothing ==
    [][last'.op = "load_failed" =>
        /\ UNCHANGED <<path, _ass_source, lines, styles, selected_indexes>>
        /\ \A k \in 1..Len(sig') :
              sig'[k].name \notin {"loaded", "selection_changed"}]_vars

\* a failed load over a loaded document with a selection
C13_Witness ==
    /\ last.op = "load_failed"
    /\ path # None
    /\ lines # <<>>
    /\ selected_indexes # <<>>
\* --------------------------------------------------------------- commands
Finished(t) == tasks[t].pc = "done"

\* the states of the command subsystem a finished run_async is in
Succeeded(cmd) == cmd.handled = "return"
Canceled(cmd) ==
    /\ cmd.handled = "except (CommandCanceled, CommandUnavailable)"
    /\ cmd.ended = "CommandCanceled"
Unavailable(cmd) ==
    /\ cmd.handled = "except (CommandCanceled, CommandUnavailable)"
    /\ cmd.ended = "CommandUnavailable"
Failed(cmd) == cmd.handled = "except Exception"

Count4(a, b, c, d) ==
    (IF a THEN 1 ELSE 0) + (IF b THEN 1 ELSE 0) + (IF c THEN 1 ELSE 0)
    + (IF d THEN 1 ELSE 0)

\* tasks i and j of the command line, i before j
SameBatch(i, j) ==
    /\ i \in 1..Len(tasks) /\ j \in 1..Len(tasks)
    /\ i < j

\* C14: run_async raises nothing to its caller; it returns true exactly
\* when the command was enabled and its body returned, false when the
\* command was unavailable or its body raised; and a finished invocation is
\* in exactly one of Succeeded, Canceled, Unavailable, Failed.
C14_RunAsyncOutcome ==
    \A t \in 1..Len(tasks) :
        Finished(t) =>
            LET cmd == tasks[t]
            IN /\ cmd.raised = "none"
               /\ cmd.ret = (cmd.is_enabled = "true" /\ cmd.ended = "return")
               /\ Count4(Succeeded(cmd), Canceled(cmd), Unavailable(cmd),
                         Failed(cmd)) = 1
               /\ cmd.ret = Succeeded(cmd)
               /\ cmd.is_enabled = "false" => Unavailable(cmd)
               /\ cmd.ended = "CommandCanceled" => Canceled(cmd)
               /\ cmd.ended = "CommandUnavailable" => Unavailable(cmd)
               /\ cmd.ended = "Exception" => Failed(cmd)

\* one command failed with some other error, another succeeded
C14_Witness ==
    /\ \E t \in 1..Len(tasks) :
          Finished(t) /\ tasks[t].ended = "Exception" /\ ~tasks[t].ret
    /\ \E t \in 1..Len(tasks) : Finished(t) /\ tasks[t].ret
HasWarning(cmd) ==
    \E k \in 1..Len(cmd.log) :
        cmd.log[k] = <<"warn", "command not available right now">>

\* C15: a command whose is_enabled reports false is not run: its body is
\* not invoked, document, selection and registry stay as they are, and
\* run_async ends as Unavailable, with a warning in the log unless the
\* command is silent; the slot of a menu action does not run it either.
C15_DisabledNeverRuns ==
    [][/\ (cmd_last'.op = "start" /\ ~cmd_last'.enabled) =>
            LET cmd == tasks'[cmd_last'.task]
            IN /\ ~cmd.body_invoked
               /\ UNCHANGED <<cmd_doc, _registry>>
               /\ cmd.pc = "done"
               /\ Unavailable(cmd)
               /\ ~cmd.ret
               /\ HasWarning(cmd) = ~silent(cmd.cls)
       /\ (cmd_last'.op = "_run_cmd" /\ ~cmd_last'.enabled) =>
            UNCHANGED <<cmd_doc, _registry, tasks, ready>>]_vars

\* a disabled command that is not silent was stepped
C15_Witness ==
    /\ cmd_last.op = "start"
    /\ ~cmd_last.enabled
    /\ ~silent(tasks[cmd_last.task].cls)
    /\ HasWarning(tasks[cmd_last.task])

\* C16: when a command of a command line ends as Failed, the body of no
\* later command of that line is executed.
C16_FailedStopsBatch ==
    \A i, j \in 1..Len(tasks) :
        (SameBatch(i, j) /\ Finished(i) /\ Failed(tasks[i])) =>
            ~tasks[j].body_invoked

IsPrefix(a, b) == Len(a) <= Len(b) /\ SubSeq(b, 1, Len(a)) = a

\* once made, an edit of the document stays
C17_EditsKept == [][IsPrefix(cmd_doc, cmd_doc')]_vars

\* C17: when a command of a command line ends as Canceled, no later command
\* of that line executes, and the edits made before, by the canceled command
\* and by the commands before it, stay.
C17_CanceledStopsBatch ==
    [][/\ \A i, j \in 1..Len(tasks') :
            (i < j /\ tasks'[i].pc = "done" /\ Canceled(tasks'[i])) =>
                ~tasks'[j].body_invoked
       /\ IsPrefix(cmd_doc, cmd_doc')]_vars

\* the commands of a command line start in its order
C18_StartInOrder ==
    \A i, j \in 1..Len(tasks) :
        (SameBatch(i, j) /\ tasks[j].pc # "scheduled") =>
            tasks[i].pc # "scheduled"

\* C18: the commands of a command line execute strictly from left to right:
\* the body of a command does not start before the body of the command
\* before it has finished, also when that body is suspended at an await.
C18_LeftToRight ==
    \A i, j \in 1..Len(tasks) :
        (SameBatch(i, j) /\ tasks[j].body_invoked) => Finished(i)
\* the segment names a command the registry does not hold
Unknown(registry, invocation) == Head(invocation) \notin DOMAIN registry

\* the parser of the segment's command rejects its arguments
Rejected(invocation) ==
    parse_args(Head(invocation), Tail(invocation)).raised # "none"

\* segment k is reached by parse_cmdline: those before it parse
Reached(registry, cmdline, k) ==
    \A h \in 1..(k - 1) :
        ~Unknown(registry, cmdline[h]) /\ ~Rejected(cmdline[h])

NothingScheduled ==
    /\ tasks' = <<>>
    /\ ready' = <<>>
    /\ UNCHANGED <<cmd_doc, _registry>>

\* C19 as claimed: a command line with a segment that names an unknown
\* command fails with CommandNotFound before any of its commands is
\* scheduled, document and selection unchanged.
C19_UnknownCommandFailsBatch ==
    [][(/\ cmd_last'.op = "run_cmdline"
        /\ \E k \in 1..Len(cmd_last'.cmdline) :
              Unknown(_registry, cmd_last'.cmdline[k])) =>
            /\ cmd_last'.raised = "CommandNotFound"
            /\ NothingScheduled]_vars

\* C19 as amended: such a command line fails before any of its commands is
\* scheduled, with CommandNotFound when the first segment that does not
\* parse is one with an unknown name and with BadInvocation when it is an
\* earlier segment whose arguments are rejected.
C19_UnknownCommandFailsBatchAmended ==
    [][(/\ cmd_last'.op = "run_cmdline"
        /\ \E k \in 1..Len(cmd_last'.cmdline) :
              Unknown(_registry, cmd_last'.cmdline[k])) =>
            /\ NothingScheduled
            /\ cmd_last'.raised \in {"CommandNotFound", "BadInvocation"}
            /\ cmd_last'.raised = "CommandNotFound" <=>
                  \E k \in 1..Len(cmd_last'.cmdline) :
                      /\ Unknown(_registry, cmd_last'.cmdline[k])
                      /\ Reached(_registry, cmd_last'.cmdline, k)]_vars

\* a known command followed by an unknown one
C19_Witness ==
    /\ cmd_last.op = "run_cmdline"
    /\ cmd_last.raised = "CommandNotFound"
    /\ Len(cmd_last.cmdline) = 2
    /\ ~Unknown(_registry, cmd_last.cmdline[1])
    /\ ~Rejected(cmd_last.cmdline[1])
    /\ Unknown(_registry, cmd_last.cmdline[2])
    /\ tasks = <<>>

\* C20: when the parser of a segment's command rejects the arguments, the
\* command line fails with BadInvocation, whose message holds the error and
\* the usage of that command, the process goes on, and no command of the
\* line is executed.
C20_BadInvocation ==
    [][(/\ cmd_last'.op = "run_cmdline"
        /\ \E k \in 1..Len(cmd_last'.cmdline) :
              /\ Reached(_registry, cmd_last'.cmdline, k)
              /\ ~Unknown(_registry, cmd_last'.cmdline[k])
              /\ Rejected(cmd_last'.cmdline[k])) =>
            /\ cmd_last'.raised = "BadInvocation"
            /\ \E k \in 1..Len(cmd_last'.cmdline) :
                  /\ Rejected(cmd_last'.cmdline[k])
                  /\ cmd_last'.message =
                        <<<<Head(cmd_last'.cmdline[k]), "error",
                            "unrecognized arguments">>,
                          <<"usage", Head(cmd_last'.cmdline[k])>>>>
            /\ NothingScheduled]_vars

\* the arguments of the first segment are rejected, the second would parse
C20_Witness ==
    /\ cmd_last.op = "run_cmdline"
    /\ cmd_last.raised = "BadInvocation"
    /\ Len(cmd_last.cmdline) = 2
    /\ Rejected(cmd_last.cmdline[1])
    /\ ~Unknown(_registry, cmd_last.cmdline[2])
    /\ ~Rejected(cmd_last.cmdline[2])
    /\ tasks = <<>>
\* the levels of the log calls made after the echo
StatusLevels(cmd) == {cmd.log[k][1] : k \in 2..Len(cmd.log)}

\* C21: a command that is not silent echoes its invocation first, also when
\* it turns out disabled and while its body is suspended, and when it has
\* finished reports one status after it: the debug timing on success, a
\* warning on cancel and unavailable, an error that names the invocation on
\* failure. A silent command makes no log call and ends the same way.
C21_EchoThenOneStatus ==
    /\ \A t \in 1..Len(tasks) :
          LET cmd == tasks[t]
          IN /\ silent(cmd.cls) => cmd.log = <<>>
             /\ cmd.pc = "scheduled" => cmd.log = <<>>
             /\ (~silent(cmd.cls) /\ cmd.pc # "scheduled") =>
                    cmd.log[1] = <<"command_echo", cmd.name>>
             /\ (~silent(cmd.cls) /\ cmd.pc \in {"suspended", "woken"}) =>
                    Len(cmd.log) = 1
             /\ (~silent(cmd.cls) /\ Finished(t)) =>
                    /\ Succeeded(cmd) =>
                          Tail(cmd.log) = <<<<"debug", cmd.name, "took">>>>
                    /\ Canceled(cmd) =>
                          Tail(cmd.log) = <<<<"warn", "canceled">>>>
                    /\ Unavailable(cmd) =>
                          Tail(cmd.log) =
                              <<<<"warn", "command not available right now">>>>
                    /\ Failed(cmd) =>
                          /\ StatusLevels(cmd) = {"error"}
                          /\ cmd.log[2] =
                                <<"error", "problem running", cmd.name>>
    /\ \A t, u \in 1..Len(tasks) :
          (/\ Finished(t) /\ Finished(u)
           /\ tasks[t].is_enabled = tasks[u].is_enabled
           /\ tasks[t].ended = tasks[u].ended) =>
              /\ tasks[t].ret = tasks[u].ret
              /\ tasks[t].handled = tasks[u].handled

\* a command that is not silent was found disabled; a silent one ended the
\* same way
C21_Witness ==
    \E t, u \in 1..Len(tasks) :
        /\ Finished(t) /\ Finished(u)
        /\ ~silent(tasks[t].cls) /\ silent(tasks[u].cls)
        /\ tasks[t].is_enabled = "false" /\ tasks[u].is_enabled = "false"
\* the sources of a reload: bubblesub/cmd, then the scripts directory when
\* opt.root_dir is set
Sources(dirs) ==
    dirs.cmd_dir \o (IF dirs.root_dir THEN dirs.scripts ELSE <<>>)

\* the classes a file provides under a name: none when its execution
\* raises, and those listed before the entry that is no command class
\* otherwise
ProvidedBy(mod, name) ==
    IF exec_module(mod) # "none" THEN {}
    ELSE {cls \in Range(reached(COMMANDS(mod))) : name \in Range(names(cls))}

\* the names the files provide
ProvidedNames(files) ==
    {name \in UNION {Range(names(cls)) : cls \in Classes} :
        \E k \in 1..Len(files) : ProvidedBy(files[k], name) # {}}

\* the menu entries the files contribute, in order
RECURSIVE ContributedMenu(_)
ContributedMenu(files) ==
    IF files = <<>> THEN <<>>
    ELSE (IF exec_module(Head(files)) = "none" /\ ~loop_raised(Head(files))
          THEN MENU(Head(files)).value ELSE <<>>)
         \o ContributedMenu(Tail(files))

\* C22: after reload_commands the registry maps exactly the names that the
\* files of the built-in directory and, with a root directory configured,
\* of its scripts directory provide, each to a class that provides it; the
\* plugin menu holds the entries those files contribute and nothing else.
C22_ReloadIsFull ==
    /\ DOMAIN _registry = ProvidedNames(Sources(cmd_dirs))
    /\ \A name \in DOMAIN _registry :
          \E k \in 1..Len(Sources(cmd_dirs)) :
              _registry[name] \in ProvidedBy(Sources(cmd_dirs)[k], name)
    /\ _plugin_menu = ContributedMenu(Sources(cmd_dirs))

\* a reload found neither the script of the generation before it nor its
\* menu entry
C22_Witness ==
    /\ cmd_last.op = "reload_commands"
    /\ "cmd-b" \notin DOMAIN _registry
    /\ "cmd-a" \in DOMAIN _registry
    /\ _plugin_menu = <<>>

\* the files of a directory that provide a name
Providers(files, name) ==
    {k \in 1..Len(files) : ProvidedBy(files[k], name) # {}}

\* the file of them that is loaded last
LastProvider(files, name) ==
    files[CHOOSE k \in Providers(files, name) :
              \A h \in Providers(files, name) : h <= k]

\* the scripts directory provides the name
External(dirs, name) ==
    dirs.root_dir /\ Providers(dirs.scripts, name) # {}

\* C23: a name that a file of the scripts directory provides resolves to
\* the class of the last such file, whether or not a built-in command uses
\* the name too; every other name of a built-in command resolves to the
\* built-in class.
C23_LastWriteWins ==
    \A name \in ProvidedNames(Sources(cmd_dirs)) :
        /\ External(cmd_dirs, name) =>
              get(_registry, name) \in
                  ProvidedBy(LastProvider(cmd_dirs.scripts, name), name)
        /\ ~External(cmd_dirs, name) =>
              get(_registry, name) \in
                  ProvidedBy(LastProvider(cmd_dirs.cmd_dir, name), name)

\* a script uses the first name of a built-in command that has an alias
C23_Witness ==
    /\ cmd_last.op = "reload_commands"
    /\ Providers(cmd_dirs.cmd_dir, "cmd-a") # {}
    /\ "A" \in ProvidedBy(LastProvider(cmd_dirs.cmd_dir, "cmd-a"), "cmd-a")
    /\ External(cmd_dirs, "cmd-a")
    /\ get(_registry, "cmd-a") = "C"
    /\ get(_registry, "a") = "A"
\* C24: the commands of a command line are of the classes their names
\* resolve to when the line is parsed; whatever a later step does to the
\* registry, each stays of its class, its body is the body of that class,
\* and a step of it that is due is taken.
C24_ReloadKeepsInFlight ==
    [][/\ cmd_last'.op = "run_cmdline" =>
            \A t \in 1..Len(tasks') :
                tasks'[t].cls = get(_registry, tasks'[t].name)
       /\ cmd_last'.op # "run_cmdline" =>
            /\ Len(tasks') = Len(tasks)
            /\ \A t \in 1..Len(tasks) :
                  /\ tasks'[t].cls = tasks[t].cls
                  /\ tasks'[t].name = tasks[t].name
                  /\ tasks'[t].body_invoked => tasks'[t].ran = tasks[t].cls
                  /\ tasks'[t].raised = "none"
       /\ cmd_last'.op \in {"start", "resume"} =>
            tasks'[Head(ready)].pc \in {"suspended", "done"}]_vars

\* the first command of a line reloaded and awaits; by the reload its name
\* resolves to another class and the name of the second is unregistered;
\* the second has run since and returned
C24_Witness ==
    /\ Len(tasks) = 2
    /\ cmd_last.op = "start" /\ cmd_last.task = 2
    /\ cmd_doc = <<2>>
    /\ tasks[2].pc = "done" /\ tasks[2].ret
    /\ tasks[2].ran = tasks[2].cls
    /\ get(_registry, tasks[2].name) = "None"
    /\ tasks[1].pc = "suspended"
    /\ get(_registry, tasks[1].name) \notin {"None", tasks[1].cls}

\* the body of the task was called and has not finished
Running(t) == tasks[t].body_invoked /\ tasks[t].pc # "done"

\* C25: no two invocations of the same command are running at once, one
\* suspended at an await while the body of the other has started.
C25_NoSelfConcurrency ==
    \A t, u \in 1..Len(tasks) :
        (t # u /\ tasks[t].cls = tasks[u].cls) =>
            ~(Running(t) /\ Running(u))

\* C26: event.duration = d leaves end at start + d, start, text and the
\* owner as they were, and duration then reads d; so for an event in a list
\* and for one in none, and for a negative d.
C26_DurationSetter ==
    [][obj_last'.op = "set_duration" =>
          LET e == obj_last'.obj
              d == obj_last'.value
          IN /\ objs'[e].end = objs[e].start + d
             /\ objs'[e].start = objs[e].start
             /\ objs'[e]._text = objs[e]._text
             /\ objs'[e].event_list = objs[e].event_list
             /\ duration(objs'[e]) = d
             /\ obj_items' = obj_items]_vars

\* a negative duration was written to an event that is in the list, while
\* the other event is in none
C26_Witness ==
    /\ obj_last.op = "set_duration"
    /\ obj_last.value < 0
    /\ objs[obj_last.obj].event_list = TheList
    /\ objs[obj_last.obj].end < objs[obj_last.obj].start
    /\ \E e \in Objects : objs[e].alive /\ objs[e].event_list = None

\* the operations that write a field of an event
FieldWrites == {"set", "set_duration"}

\* C27: the copy of an event has its start, end and text, no owner and no
\* index and is not in the list of the original, which the copying leaves
\* as it was; a later write to either of the two changes nothing of the
\* other and emits only for the written event, and nothing while that event
\* has no owner.
C27_CopyIsDetached ==
    [][/\ obj_last'.op = "copy" =>
            /\ objs'[2].alive
            /\ objs'[2].start = objs[1].start
            /\ objs'[2].end = objs[1].end
            /\ objs'[2]._text = objs[1]._text
            /\ objs'[2].event_list = None
            /\ ObjIndex(objs'[2], 2, obj_items') = None
            /\ 2 \notin Range(obj_items')
            /\ objs'[1] = objs[1]
            /\ obj_items' = obj_items
            /\ obj_seen' = <<>>
       /\ obj_last'.op \in FieldWrites =>
            /\ \A x \in Objects \ {obj_last'.obj} : objs'[x] = objs[x]
            /\ \A k \in 1..Len(obj_seen') :
                  obj_seen'[k].item = obj_last'.obj
            /\ objs[obj_last'.obj].event_list = None => obj_seen' = <<>>
            /\ obj_items' = obj_items]_vars

\* the original is in the list, its copy is in none and was written to:
\* the two differ now and nothing was emitted
C27_Witness ==
    /\ obj_last.op \in FieldWrites
    /\ obj_last.obj = 2
    /\ objs[1].event_list = TheList
    /\ objs[2].event_list = None
    /\ objs[2].start # objs[1].start
    /\ obj_seen = <<>>

\* C30: the cached hash of every event is the hash of the owner and the
\* fields it has, in every state and whenever a slot of a signal reads it.
C30_HashCurrent ==
    /\ \A e \in Objects :
          objs[e].alive => objs[e]._hash = CurrentHash(objs[e])
    /\ \A k \in 1..Len(obj_seen) : obj_seen[k]._hash = obj_seen[k].current

\* the signals by which a list reports a removal and an insertion
RemovalSignals ==
    {"items_about_to_be_removed", "items_removed",
     "styles.items_about_to_be_removed", "styles.items_removed"}
InsertionSignals ==
    {"items_about_to_be_inserted", "items_inserted",
     "styles.items_about_to_be_inserted", "styles.items_inserted"}

\* the signal is one of the style list
OfStyles(name) ==
    name \in {"styles.items_about_to_be_removed", "styles.items_removed",
              "styles.items_about_to_be_inserted", "styles.items_inserted"}

\* C29: in a load each list reports its removal before its insertion, the
\* list is empty from the signal that reports the removal done up to the
\* signal that announces the insertion, and after the load the lines and
\* the styles are the new items in the order of the source.
C29_RemoveThenInsert ==
    last.op = "load" =>
        /\ \A i, j \in 1..Len(sig) :
              (/\ sig[i].name \in RemovalSignals
               /\ sig[j].name \in InsertionSignals
               /\ OfStyles(sig[i].name) = OfStyles(sig[j].name)) => i < j
        /\ \A k \in 1..Len(sig) :
              sig[k].name \in {"items_removed", "styles.items_removed",
                               "items_about_to_be_inserted",
                               "styles.items_about_to_be_inserted"} =>
                  sig[k].nlines = 0
        /\ \A k \in 1..Len(sig) :
              sig[k].name = "items_inserted" => sig[k].nlines = last.count
        /\ lines = [k \in 1..last.count |-> k]
        /\ styles \in {d.styles : d \in Documents}

\* a document with events was loaded over a list that held lines
C29_Witness ==
    /\ last.op = "load"
    /\ last.count > 0
    /\ \E k \in 1..Len(sig) :
          sig[k].name = "items_about_to_be_removed" /\ sig[k].nlines > 0
    /\ \E k \in 1..Len(sig) : sig[k].name = "items_inserted"
\* position k of the line lies in a quoted substring, its quotes included
InQuotes(line, k) ==
    \/ line[k] \in quotes
    \/ Cardinality({j \in 1..(k - 1) : line[j] \in quotes}) % 2 = 1

\* an unquoted ';' and an unquoted blank
SplitsAt(line, k) == line[k] = ";" /\ ~InQuotes(line, k)
BlankAt(line, k) == line[k] \in whitespace /\ ~InQuotes(line, k)

\* the segment a position belongs to: the unquoted ';' before it
SegmentOf(line, k) == Cardinality({j \in 1..k : SplitsAt(line, j)})

\* the characters of a segment that belong to a token, in order
RECURSIVE SegmentChars(_, _, _)
SegmentChars(line, seg, k) ==
    IF k > Len(line) THEN <<>>
    ELSE (IF /\ SegmentOf(line, k) = seg
             /\ ~SplitsAt(line, k)
             /\ ~BlankAt(line, k)
          THEN <<line[k]>> ELSE <<>>)
         \o SegmentChars(line, seg, k + 1)

\* the segments that hold a token, in order
RECURSIVE TokenSegments(_, _)
TokenSegments(line, seg) ==
    IF seg > Len(line) THEN <<>>
    ELSE (IF SegmentChars(line, seg, 1) # <<>>
          THEN <<SegmentChars(line, seg, 1)>> ELSE <<>>)
         \o TokenSegments(line, seg + 1)

\* the characters of the tokens of an invocation, in order
RECURSIVE Joined(_)
Joined(invocation) ==
    IF invocation = <<>> THEN <<>>
    ELSE Head(invocation) \o Joined(Tail(invocation))

\* C28: split_invocation of a line whose quotes are closed returns one
\* token list for each stretch between unquoted ';' that holds a token, in
\* order, made of the characters of that stretch but for its unquoted
\* blanks; no list is empty.
C28_SplitsAtUnquotedSemicolons ==
    (split_pc = "split" /\ split_out.raised = "none") =>
        /\ Len(split_out.invocations) = Len(TokenSegments(split_in, 0))
        /\ \A k \in 1..Len(split_out.invocations) :
              /\ split_out.invocations[k] # <<>>
              /\ Joined(split_out.invocations[k]) =
                    TokenSegments(split_in, 0)[k]

\* C31: the text of an event never holds a literal line break, however the
\* event was made (constructor, copy) and whatever was assigned to it
C31_NoLiteralNewline ==
    \A e \in Objects : objs[e].alive => NL \notin Range(objs[e]._text)

\* C32: the names of the styles of a StyleList are unique after any sequence
\* of insert_one, rename and load, so put_to_ass writes as many styles as the
\* list holds
C32_UniqueStyleNames ==
    /\ \A i, j \in 1..Len(style_list) :
          style_list[i].name = style_list[j].name => i = j
    /\ Len(styles_put_to_ass(<<>>, style_list)) = Len(style_list)

\* the entity the last write was made to, as the key of a signal finds it in
\* the list the slot of that signal sees
Identified(s) ==
    IF s.list = "styles" THEN get_by_name(s.styles, s.name) = ent_last.pos
    ELSE s.index = ent_last.pos - 1

\* C33: a field write on an entity of a list emits item_about_to_change and
\* then item_changed, and the key of each identifies the written entity in
\* the list as it is while the signal is out
C33_ChangePair ==
    ent_last.op = "set" =>
        /\ Len(ent_sig) = 2
        /\ ent_sig[1].signal = "item_about_to_change"
        /\ ent_sig[2].signal = "item_changed"
        /\ ent_sig[1].list = ent_last.list
        /\ ent_sig[2].list = ent_last.list
        /\ Identified(ent_sig[1])
        /\ Identified(ent_sig[2])

\* the same for the subtitles and for the writes that keep the name of a
\* style, in a list whose names are unique
C33_ChangePairKeepingName ==
    (/\ ent_last.op = "set"
     /\ ent_last.attribute # "name"
     /\ \A k \in 1..Len(ent_sig) :
           \A i, j \in 1..Len(ent_sig[k].styles) :
               ent_sig[k].styles[i].name = ent_sig[k].styles[j].name => i = j)
        => C33_ChangePair

HasTag(blocks, kind) == KindCount(blocks, kind) > 0

TagOf(blocks, kind) ==
    blocks[CHOOSE k \in 1..Len(blocks) : blocks[k].kind = kind]

PlainText(blocks) ==
    BlocksText(SelectSeq(blocks, LAMBDA b : b.kind = "text"))

\* what follows the TIME prefix and the text in the written text
AfterText(sub, ssa) ==
    SubSeq(ssa.text, Len(TimeTag(sub.start, sub.end)) + Len(sub.text) + 1,
           Len(ssa.text))

\* C34: the Subtitle read from a file event has the text without the tags,
\* start and end from the TIME tag if there is one and from the event
\* otherwise, the note from the NOTE tag or empty; the text written for a
\* Subtitle is a TIME tag of its start and end, its text, and a NOTE tag
\* exactly when its note is not empty
C34_ReadAndWrite ==
    /\ rd_pc = "read" =>
          /\ rd_sub.text = PlainText(rd_blocks)
          /\ rd_sub.start = IF HasTag(rd_blocks, "time")
                            THEN TagOf(rd_blocks, "time").start
                            ELSE rd_event.start
          /\ rd_sub.end = IF HasTag(rd_blocks, "time")
                          THEN TagOf(rd_blocks, "time").end
                          ELSE rd_event.end
          /\ rd_sub.note = IF HasTag(rd_blocks, "note")
                           THEN unescape_ass_tag(TagOf(rd_blocks, "note").note)
                           ELSE <<>>
    /\ rd_pc \in {"read", "written"} =>
          LET prefix == TimeTag(rd_sub.start, rd_sub.end)
              rest == AfterText(rd_sub, rd_ssa)
          IN /\ StartsWith(rd_ssa.text, 1, prefix)
             /\ SubSeq(rd_ssa.text, Len(prefix) + 1,
                       Len(prefix) + Len(rd_sub.text)) = rd_sub.text
             /\ (rd_sub.note = <<>>) <=> (rest = <<>>)
             /\ rd_sub.note # <<>> =>
                   /\ StartsWith(rest, 1, NOTE_OPEN)
                   /\ rest[Len(rest)] = "}"

\* an event without a TIME tag and with a NOTE tag was read, its start was
\* written, and the written text has the new start and the note
C34_Witness ==
    /\ rd_pc = "written"
    /\ ~HasTag(rd_blocks, "time")
    /\ HasTag(rd_blocks, "note")
    /\ rd_sub.note # <<>>
    /\ rd_sub.start # rd_event.start
    /\ rd_sub.end = rd_event.end
    /\ rd_sub.text # <<>>

\* C36: an insert that fails because an event of the batch has an owner
\* leaves every list and every owner as before the call
C36_FailedInsertChangesNothing ==
    [][ev_last'.raised => (_items' = _items /\ event_list' = event_list)]_vars

Ordered(events) == \A k \in 1..Len(events) : events[k].start <= events[k].end

\* the mode whose apply_drag the last operation ran
AppliedMode ==
    IF dr_last'.op = "begin_drag_mode" /\ ~dr_last'.raised THEN dr_last'.mode
    ELSE IF dr_last'.op = "mouseMoveEvent" THEN _drag_mode
    ELSE NoDragMode

\* C35: apply_drag of the modes SubtitleStart, SubtitleEnd and SubtitleSplit
\* leaves start <= end in every event, for every position of the mouse, if
\* every event had start <= end before
C35_DragKeepsOrder ==
    [][(/\ AppliedMode \in {"SubtitleStart", "SubtitleEnd", "SubtitleSplit"}
        /\ Ordered(dr_events))
          => Ordered(dr_events')]_vars

\* the same for the two modes that swap start and end
C35_StartEndKeepOrder ==
    [][(/\ AppliedMode \in {"SubtitleStart", "SubtitleEnd"}
        /\ Ordered(dr_events))
          => Ordered(dr_events')]_vars

\* the position of an object in the list after the operation
PositionAfter(uid) == ObservableList_index(Uids(dr_events'), uid)

\* C37: a split drag begun at a position that an event's interval holds
\* does not fail, whatever the index of the event, every copy is directly
\* after its source event, and the selection holds indexes of the list
C37_SplitBegins ==
    [][(/\ dr_last'.op = "begin_drag_mode"
        /\ dr_last'.mode = "SubtitleSplit"
        /\ source_events(dr_events, dr_last'.pts) # <<>>)
          => /\ ~dr_last'.raised
             /\ Len(executors'.copied_events)
                  = Len(executors'.source_events)
             /\ \A k \in 1..Len(executors'.copied_events) :
                   PositionAfter(executors'.copied_events[k])
                     = PositionAfter(
                           reversed(executors'.source_events)[k]) + 1
             /\ \A k \in 1..Len(dr_sel') :
                   0 <= dr_sel'[k] /\ dr_sel'[k] < Len(dr_events')]_vars

\* the same when the event at index 0 is not among the source events
C37_SplitBeginsAfterFirst ==
    [][(/\ dr_last'.op = "begin_drag_mode"
        /\ dr_last'.mode = "SubtitleSplit"
        /\ source_events(dr_events, dr_last'.pts) # <<>>
        /\ dr_events[1].uid \notin Range(source_events(dr_events,
                                                       dr_last'.pts)))
          => /\ ~dr_last'.raised
             /\ Len(executors'.copied_events)
                  = Len(executors'.source_events)
             /\ \A k \in 1..Len(executors'.copied_events) :
                   PositionAfter(executors'.copied_events[k])
                     = PositionAfter(
                           reversed(executors'.source_events)[k]) + 1
             /\ \A k \in 1..Len(dr_sel') :
                   0 <= dr_sel'[k] /\ dr_sel'[k] < Len(dr_events')]_vars

\* whether a drag is active
Active(mode) == IF mode # NoDragMode THEN 1 ELSE 0

\* C38: every drag begun is ended once, by the next begin_drag_mode or by
\* end_drag_mode, with one undo push; end_drag_mode without a drag pushes
\* nothing; after end_drag_mode no drag is active and a mouse move changes
\* nothing
C38_OnePushPerDrag ==
    [][/\ undo' + Active(_drag_mode') = dr_begun'
       /\ dr_last'.op = "begin_drag_mode" =>
             /\ undo' = undo + Active(_drag_mode)
             /\ _drag_mode' = dr_last'.mode
       /\ dr_last'.op = "end_drag_mode" =>
             /\ undo' = undo + Active(_drag_mode)
             /\ _drag_mode' = NoDragMode
       /\ dr_last'.op = "mouseMoveEvent" =>
             /\ undo' = undo
             /\ _drag_mode' = _drag_mode
             /\ _drag_mode = NoDragMode => dr_events' = dr_events]_vars

\* two drags were begun, the second while the first was active, the second
\* was ended, and two pushes were made
C38_Witness ==
    /\ dr_begun = 2
    /\ undo = 2
    /\ dr_last.op = "end_drag_mode"
    /\ dr_last.mode # NoDragMode
    /\ _drag_mode = NoDragMode


\* ------------------------------------------------------------------ C39
\* loading the file raises: in exec_module or in the loop over its COMMANDS
Fails(mod) == exec_module(mod) # "none" \/ loop_raised(mod)

\* the names of the command classes a file lists
NamesOf(mod) ==
    UNION {Range(names(cls)) : cls \in Range(COMMANDS(mod)) \ {NotACommand}}

\* the directories without one file
RECURSIVE Without(_, _)
Without(files, mod) ==
    IF files = <<>> THEN <<>>
    ELSE (IF Head(files) = mod THEN <<>> ELSE <<Head(files)>>)
         \o Without(Tail(files), mod)

DirsWithout(dirs, mod) ==
    CommandDirs(Without(dirs.cmd_dir, mod), dirs.root_dir,
                Without(dirs.scripts, mod))

\* the registry and the menu hold everything the file lists
ContributesAll(mod) ==
    /\ NamesOf(mod) \subseteq DOMAIN _registry
    /\ Range(MENU(mod).value) \subseteq Range(_plugin_menu)

\* the registry and the menu are those of a reload that never saw the file
ContributesNothing(mod) ==
    LET api == reload_commands(CommandApi(<<>>, <<>>),
                               DirsWithout(cmd_dirs, mod))
    IN _registry = api.registry /\ _plugin_menu = api.plugin_menu

\* the files of the last reload that raise
FailingSources == {mod \in Range(Sources(cmd_dirs)) : Fails(mod)}

\* C39: a reload in which a file raises still registers the commands and
\* the menu entries of every other file, emits commands_loaded exactly once,
\* after the loading, and holds of the file that raised either all of its
\* commands and menu entries or none of them.
C39_FailingSourceAllOrNothing ==
    (cmd_last.op = "reload_commands" /\ FailingSources # {}) =>
        /\ \A mod \in Range(Sources(cmd_dirs)) \ FailingSources :
              ContributesAll(mod)
        /\ reload_commands(CommandApi(_registry, _plugin_menu),
                           cmd_dirs).emitted = <<"commands_loaded">>
        /\ \A mod \in FailingSources :
              ContributesAll(mod) \/ ContributesNothing(mod)

\* the same of the files whose execution raises: they contribute nothing,
\* and the others are loaded
C39_FailedExecutionContributesNothing ==
    (cmd_last.op = "reload_commands" /\ FailingSources # {}) =>
        /\ \A mod \in Range(Sources(cmd_dirs)) \ FailingSources :
              ContributesAll(mod)
        /\ reload_commands(CommandApi(_registry, _plugin_menu),
                           cmd_dirs).emitted = <<"commands_loaded">>
        /\ \A mod \in FailingSources :
              exec_module(mod) # "none" => ContributesNothing(mod)
====
